---- MODULE Spec2Model ----
(***************************************************************************)
(* autopromptr-backend: the retry controllers and the batch sequencers.    *)
(*                                                                         *)
(* The repository holds several variants of the same server.  Each variant *)
(* is one component of this module, with its own variables (prefixed by    *)
(* the component) and its own program counter.  A behaviour runs exactly   *)
(* one component: Init is the disjunction of the components' initial       *)
(* states, every other component being "off".                              *)
(*                                                                         *)
(*   ra_  retryAction            src/unnamed/part_000                      *)
(*   pb_  processBatch           src/batchProcessor.js, batchProcessor.ts  *)
(*   sb_  POST /api/run-batch    src/automation.js (puppeteer variant)     *)
(*   rt_  router /run-batch      src/src/routes.ts                         *)
(*   eb_  enhanced batch server  src/browserService.ts                     *)
(*   gs_  GET /api/batch-status  src/automation.js (Supabase variant)      *)
(*   er_  element resolution     src/automation.js, part_000, part_009     *)
(*   af_  automateForm           src/automation.js, part_000, part_009     *)
(*   tt_  GET /test              src/unnamed/part_003                      *)
(*   lp_  processBatch, one      src/unnamed/part_010, part_025            *)
(*        launch per attempt                                               *)
(*   lb_  launchBrowser          src/browserService.ts, part_013, part_012 *)
(*   rb_  POST /api/run-batch    src/server.js, src/automation.js (store)  *)
(*   st_  handler settings       src/unnamed/part_005                      *)
(*                                                                         *)
(* A call into the browser (launch, goto, automateForm, screenshot, close) *)
(* is a step whose outcome the environment chooses: it returns or throws.  *)
(***************************************************************************)
EXTENDS Integers, Sequences, FiniteSets, TLC

\* ------------------------------------------------------------------ bounds

\* Largest maxRetries a caller passes.
MaxRetries == 3

\* Longest prompt list of a batch.
MaxPrompts == 3

\* Longest prompt list sent to the enhanced batch server.
MaxEnhPrompts == 2

\* The batch ids clients use, and the batch runs a behaviour holds: two runs
\* may be in flight at once, on different ids or on the same id.
BatchIds == {"a", "b"}
Runs == {1, 2}

\* The retryDelay values a caller passes (milliseconds).
DelayChoices == {500, 1000}

\* The automationDelay values a caller passes (milliseconds).
DelaySettings == {0, 1000}

\* Outcomes of one automateForm call: it returns success:true, returns
\* success:false, or throws.
AutomateOutcomes == {"ok", "fail", "throw"}

\* The status a prompt row of the store holds.
PromptStatuses == {"pending", "processing", "completed", "failed"}

\* A prompt list is the sequence of its prompts' order fields.  The lists a
\* caller sends: sorted by order, or in the opposite order.
Ascending(n) == [k \in 1..n |-> k]
Descending(n) == [k \in 1..n |-> n + 1 - k]
PromptLists == UNION {{Ascending(n), Descending(n)} : n \in 0..MaxPrompts}

VARIABLES
  \* retryAction
  ra_pc, ra_maxRetries, ra_retryDelay, ra_attempt, ra_hist, ra_waits, ra_out,
  \* processBatch
  pb_pc, pb_batch, pb_waitForIdle, pb_maxRetries, pb_retryDelay, pb_attempt,
  pb_hist, pb_waits, pb_automationResult, pb_browser, pb_status, pb_promise,
  pb_escaped,
  \* POST /api/run-batch of automation.js
  sb_pc, sb_valid, sb_prompts, sb_maxRetries, sb_delay, sb_i, sb_started,
  sb_results, sb_successCount, sb_failureCount, sb_waited, sb_broke,
  sb_browser, sb_response,
  \* router.post('/run-batch') of routes.ts
  rt_pc, rt_valid, rt_prompts, rt_i, rt_started, rt_results, rt_response,
  \* the enhanced batch server of browserService.ts
  eb_batchStatus, eb_batchResults, eb_run, eb_stopResponse,
  \* GET /api/batch-status/:batch_id of automation.js
  gs_pc, gs_lookup, gs_prompts, gs_response,
  \* the element resolution of automateForm
  er_pc, er_variant, er_role, er_custom, er_page, er_fallback, er_results,
  \* the interaction of automateForm
  af_pc, af_variant, af_maxRetries, af_target, af_button, af_tried, af_done,
  af_raised, af_stepMsg, af_result,
  \* GET /test
  tt_pc, tt_tests, tt_summary, tt_response,
  \* processBatch with one launch per attempt
  lp_pc, lp_maxRetries, lp_retries, lp_attempts, lp_waits, lp_launched,
  lp_browser, lp_page, lp_pending, lp_result,
  \* launchBrowser
  lb_pc, lb_variant, lb_browser, lb_pending, lb_out,
  \* POST /api/run-batch and the store
  rb_pc, rb_variant, rb_recordFailed, rb_started, rb_response,
  \* the settings of /api/automation and /api/run-batch
  st_pc, st_handler, st_body, st_settings, st_effective, st_response

raVars == <<ra_pc, ra_maxRetries, ra_retryDelay, ra_attempt, ra_hist, ra_waits,
            ra_out>>
pbVars == <<pb_pc, pb_batch, pb_waitForIdle, pb_maxRetries, pb_retryDelay,
            pb_attempt, pb_hist, pb_waits, pb_automationResult, pb_browser,
            pb_status, pb_promise, pb_escaped>>
sbVars == <<sb_pc, sb_valid, sb_prompts, sb_maxRetries, sb_delay, sb_i,
            sb_started, sb_results, sb_successCount, sb_failureCount, sb_waited,
            sb_broke, sb_browser, sb_response>>
rtVars == <<rt_pc, rt_valid, rt_prompts, rt_i, rt_started, rt_results,
            rt_response>>
ebVars == <<eb_batchStatus, eb_batchResults, eb_run, eb_stopResponse>>
gsVars == <<gs_pc, gs_lookup, gs_prompts, gs_response>>
erVars == <<er_pc, er_variant, er_role, er_custom, er_page, er_fallback,
            er_results>>
afVars == <<af_pc, af_variant, af_maxRetries, af_target, af_button, af_tried,
            af_done, af_raised, af_stepMsg, af_result>>
ttVars == <<tt_pc, tt_tests, tt_summary, tt_response>>
lpVars == <<lp_pc, lp_maxRetries, lp_retries, lp_attempts, lp_waits,
            lp_launched, lp_browser, lp_page, lp_pending, lp_result>>
lbVars == <<lb_pc, lb_variant, lb_browser, lb_pending, lb_out>>
rbVars == <<rb_pc, rb_variant, rb_recordFailed, rb_started, rb_response>>
stVars == <<st_pc, st_handler, st_body, st_settings, st_effective,
            st_response>>
vars == <<raVars, pbVars, sbVars, rtVars, ebVars, gsVars, erVars, afVars,
           ttVars, lpVars, lbVars, rbVars, stVars>>

\* What a step of one component leaves alone: the other components.
raRest == <<pbVars, sbVars, rtVars, ebVars, gsVars, erVars, afVars, ttVars,
           lpVars, lbVars, rbVars, stVars>>
pbRest == <<raVars, sbVars, rtVars, ebVars, gsVars, erVars, afVars, ttVars,
           lpVars, lbVars, rbVars, stVars>>
sbRest == <<raVars, pbVars, rtVars, ebVars, gsVars, erVars, afVars, ttVars,
           lpVars, lbVars, rbVars, stVars>>
rtRest == <<raVars, pbVars, sbVars, ebVars, gsVars, erVars, afVars, ttVars,
           lpVars, lbVars, rbVars, stVars>>
ebRest == <<raVars, pbVars, sbVars, rtVars, gsVars, erVars, afVars, ttVars,
           lpVars, lbVars, rbVars, stVars>>
gsRest == <<raVars, pbVars, sbVars, rtVars, ebVars, erVars, afVars, ttVars,
           lpVars, lbVars, rbVars, stVars>>
erRest == <<raVars, pbVars, sbVars, rtVars, ebVars, gsVars, afVars, ttVars,
           lpVars, lbVars, rbVars, stVars>>
afRest == <<raVars, pbVars, sbVars, rtVars, ebVars, gsVars, erVars, ttVars,
           lpVars, lbVars, rbVars, stVars>>
ttRest == <<raVars, pbVars, sbVars, rtVars, ebVars, gsVars, erVars, afVars,
           lpVars, lbVars, rbVars, stVars>>
lpRest == <<raVars, pbVars, sbVars, rtVars, ebVars, gsVars, erVars, afVars,
           ttVars, lbVars, rbVars, stVars>>
lbRest == <<raVars, pbVars, sbVars, rtVars, ebVars, gsVars, erVars, afVars,
           ttVars, lpVars, rbVars, stVars>>
rbRest == <<raVars, pbVars, sbVars, rtVars, ebVars, gsVars, erVars, afVars,
           ttVars, lpVars, lbVars, stVars>>
stRest == <<raVars, pbVars, sbVars, rtVars, ebVars, gsVars, erVars, afVars,
           ttVars, lpVars, lbVars, rbVars>>

\* ============================================================ retryAction
\* ra_hist: the outcome of each invocation of fn so far (TRUE: it returned).
\* The k-th invocation returns the value k or throws the error k.
\* ra_out: <<"value", k>> returned, <<"error", k>> thrown, <<"error", 0>> is
\* the synthetic Error("retryAction: Max retries exceeded").

raOff ==
  /\ ra_pc = "off" /\ ra_maxRetries = 0 /\ ra_retryDelay = 0 /\ ra_attempt = 0
  /\ ra_hist = <<>> /\ ra_waits = <<>> /\ ra_out = <<"none", 0>>

raInit ==
  /\ ra_pc = "loop"
  /\ ra_maxRetries \in (0 - 1)..MaxRetries
  /\ ra_retryDelay \in DelayChoices
  /\ ra_attempt = 0
  /\ ra_hist = <<>> /\ ra_waits = <<>> /\ ra_out = <<"none", 0>>

\* throw new Error("retryAction: Max retries exceeded"), after the loop
MaxRetriesExceeded == <<"error", 0>>

raLoopGuardMutant(attempt, maxRetries) == attempt <= maxRetries

\* while (attempt < maxRetries)
raLoopGuard(attempt, maxRetries) == attempt < maxRetries

raExhaustedMutant(attempt, maxRetries) == attempt > maxRetries

\* if (attempt >= maxRetries) throw err;
raExhausted(attempt, maxRetries) == attempt >= maxRetries

raThrownMutant(k) == <<"error", 1>>

\* throw err: the error of the invocation that has just failed
raThrown(k) == <<"error", k>>

raLoopTest ==
  /\ ra_pc = "loop"
  /\ IF raLoopGuard(ra_attempt, ra_maxRetries)
       THEN ra_pc' = "call" /\ ra_out' = ra_out
       ELSE ra_pc' = "thrown" /\ ra_out' = MaxRetriesExceeded
  /\ UNCHANGED <<ra_maxRetries, ra_retryDelay, ra_attempt, ra_hist, ra_waits>>
  /\ UNCHANGED raRest

\* return await fn(), or the catch block
raCall(ok) ==
  /\ ra_pc = "call"
  /\ ra_hist' = Append(ra_hist, ok)
  /\ IF ok
       THEN /\ ra_pc' = "returned"
            /\ ra_out' = <<"value", Len(ra_hist')>>
            /\ ra_attempt' = ra_attempt
       ELSE /\ ra_attempt' = ra_attempt + 1
            /\ IF raExhausted(ra_attempt', ra_maxRetries)
                 THEN ra_pc' = "thrown" /\ ra_out' = raThrown(Len(ra_hist'))
                 ELSE ra_pc' = "wait" /\ ra_out' = ra_out
  /\ UNCHANGED <<ra_maxRetries, ra_retryDelay, ra_waits>>
  /\ UNCHANGED raRest

\* await new Promise((res) => setTimeout(res, retryDelay))
raWait ==
  /\ ra_pc = "wait"
  /\ ra_waits' = Append(ra_waits, ra_retryDelay)
  /\ ra_pc' = "loop"
  /\ UNCHANGED <<ra_maxRetries, ra_retryDelay, ra_attempt, ra_hist, ra_out>>
  /\ UNCHANGED raRest

retryAction ==
  \/ raLoopTest
  \/ \E ok \in BOOLEAN : raCall(ok)
  \/ raWait

\* =========================================================== processBatch
\* pb_batch: "nullish" (null or undefined), "noUrl" (an object without
\* targetUrl, as in the test) or "url".
\* pb_hist: the outcome of each automateForm call so far.
\* pb_automationResult: "null", or the success field of the last result
\* automateForm returned ("ok", "fail").
\* pb_browser: "none", "open", "closed", or "closeFailed" when close() threw.
\* pb_promise: the promise processBatch returned.

pbOff ==
  /\ pb_pc = "off" /\ pb_batch = "noUrl" /\ pb_waitForIdle = FALSE
  /\ pb_maxRetries = 0 /\ pb_retryDelay = 0 /\ pb_attempt = 0
  /\ pb_hist = <<>> /\ pb_waits = <<>> /\ pb_automationResult = "null"
  /\ pb_browser = "none" /\ pb_status = "none" /\ pb_promise = "pending"
  /\ pb_escaped = FALSE

pbInit ==
  /\ pb_pc = "start"
  /\ pb_batch \in {"nullish", "noUrl", "url"}
  /\ pb_waitForIdle \in BOOLEAN
  /\ pb_maxRetries \in 0..MaxRetries
  /\ pb_retryDelay \in DelayChoices
  /\ pb_attempt = 0
  /\ pb_hist = <<>> /\ pb_waits = <<>> /\ pb_automationResult = "null"
  /\ pb_browser = "none" /\ pb_status = "none" /\ pb_promise = "pending"
  /\ pb_escaped = FALSE

pbKeepInputs ==
  /\ UNCHANGED <<pb_batch, pb_waitForIdle, pb_maxRetries, pb_retryDelay>>
  /\ UNCHANGED pbRest

\* const { batchId = batch.id, ip } = options;  (before the try)
pbEnter ==
  /\ pb_pc = "start"
  /\ IF pb_batch = "nullish"
       THEN pb_pc' = "done" /\ pb_promise' = "rejected"
       ELSE pb_pc' = "launch" /\ pb_promise' = pb_promise
  /\ pbKeepInputs
  /\ UNCHANGED <<pb_attempt, pb_hist, pb_waits, pb_automationResult, pb_browser,
                 pb_status, pb_escaped>>

\* browser = await chromium.launch(...)
pbLaunch(ok) ==
  /\ pb_pc = "launch"
  /\ IF ok THEN pb_browser' = "open" /\ pb_pc' = "context"
           ELSE pb_browser' = pb_browser /\ pb_pc' = "catch"
  /\ pbKeepInputs
  /\ UNCHANGED <<pb_attempt, pb_hist, pb_waits, pb_automationResult, pb_status,
                 pb_promise, pb_escaped>>

\* browser.newContext(); context.newPage(); if (batch.targetUrl)
pbNewPage(ok) ==
  /\ pb_pc = "context"
  /\ pb_pc' = IF ~ok THEN "catch" ELSE IF pb_batch = "url" THEN "goto" ELSE "loop"
  /\ pbKeepInputs
  /\ UNCHANGED <<pb_attempt, pb_hist, pb_waits, pb_automationResult, pb_browser,
                 pb_status, pb_promise, pb_escaped>>

\* await page.goto(batch.targetUrl, ...); if (waitForIdle)
pbGoto(ok) ==
  /\ pb_pc = "goto"
  /\ pb_pc' = IF ~ok THEN "catch" ELSE IF pb_waitForIdle THEN "idle" ELSE "loop"
  /\ pbKeepInputs
  /\ UNCHANGED <<pb_attempt, pb_hist, pb_waits, pb_automationResult, pb_browser,
                 pb_status, pb_promise, pb_escaped>>

\* try { await page.waitForLoadState("networkidle") } catch (e) { warn }
pbWaitForIdle(ok) ==
  /\ pb_pc = "idle"
  /\ pb_pc' = "loop"
  /\ pbKeepInputs
  /\ UNCHANGED <<pb_attempt, pb_hist, pb_waits, pb_automationResult, pb_browser,
                 pb_status, pb_promise, pb_escaped>>

pbLoopGuardMutant(attempt, maxRetries) == attempt <= maxRetries

\* while (attempt < maxRetries)
pbLoopGuard(attempt, maxRetries) == attempt < maxRetries

pbLoopTest ==
  /\ pb_pc = "loop"
  /\ pb_pc' = IF pbLoopGuard(pb_attempt, pb_maxRetries) THEN "call" ELSE "shot"
  /\ pbKeepInputs
  /\ UNCHANGED <<pb_attempt, pb_hist, pb_waits, pb_automationResult, pb_browser,
                 pb_status, pb_promise, pb_escaped>>

\* automationResult = await automateForm(...); success: break; otherwise (a
\* failed result or an exception) attempt++, and a wait if attempts remain
pbAttempt(o) ==
  /\ pb_pc = "call"
  /\ pb_hist' = Append(pb_hist, o)
  /\ pb_automationResult' = IF o = "throw" THEN pb_automationResult ELSE o
  /\ IF o = "ok"
       THEN pb_pc' = "shot" /\ pb_attempt' = pb_attempt
       ELSE /\ pb_attempt' = pb_attempt + 1
            /\ pb_pc' = IF pb_attempt' < pb_maxRetries THEN "wait" ELSE "loop"
  /\ pbKeepInputs
  /\ UNCHANGED <<pb_waits, pb_browser, pb_status, pb_promise, pb_escaped>>

\* await page.waitForTimeout(retryDelay)
pbRetryWait(ok) ==
  /\ pb_pc = "wait"
  /\ pb_waits' = Append(pb_waits, pb_retryDelay)
  /\ pb_pc' = IF ok THEN "loop" ELSE "catch"
  /\ pbKeepInputs
  /\ UNCHANGED <<pb_attempt, pb_hist, pb_automationResult, pb_browser, pb_status,
                 pb_promise, pb_escaped>>

pbFinalStatusMutant(automationResult) ==
  IF automationResult = "null" THEN "failed" ELSE "completed"

\* status: automationResult?.success ? "completed" : "failed"
pbFinalStatus(automationResult) ==
  IF automationResult = "ok" THEN "completed" ELSE "failed"

\* the screenshot (its failure is logged) and the return of the result
pbScreenshot(ok) ==
  /\ pb_pc = "shot"
  /\ pb_status' = pbFinalStatus(pb_automationResult)
  /\ pb_pc' = "finally"
  /\ pbKeepInputs
  /\ UNCHANGED <<pb_attempt, pb_hist, pb_waits, pb_automationResult, pb_browser,
                 pb_promise, pb_escaped>>

\* catch (error) { return { status: "failed", ... } }
pbCatch ==
  /\ pb_pc = "catch"
  /\ pb_escaped' = TRUE
  /\ pb_status' = "failed"
  /\ pb_pc' = "finally"
  /\ pbKeepInputs
  /\ UNCHANGED <<pb_attempt, pb_hist, pb_waits, pb_automationResult, pb_browser,
                 pb_promise>>

pbClosesMutant(browser) == FALSE

\* finally { if (browser) { await browser.close(); } }
pbCloses(browser) == browser = "open"

\* A close() that throws ("closeFailed") replaces the function's
\* completion: the promise rejects.
pbFinally(ok) ==
  /\ pb_pc = "finally"
  /\ IF pbCloses(pb_browser)
       THEN IF ok THEN pb_browser' = "closed" /\ pb_promise' = "resolved"
                  ELSE pb_browser' = "closeFailed" /\ pb_promise' = "rejected"
       ELSE pb_browser' = pb_browser /\ pb_promise' = "resolved"
  /\ pb_pc' = "done"
  /\ pbKeepInputs
  /\ UNCHANGED <<pb_attempt, pb_hist, pb_waits, pb_automationResult, pb_status,
                 pb_escaped>>

processBatch ==
  \/ pbEnter
  \/ \E ok \in BOOLEAN : pbLaunch(ok)
  \/ \E ok \in BOOLEAN : pbNewPage(ok)
  \/ \E ok \in BOOLEAN : pbGoto(ok)
  \/ \E ok \in BOOLEAN : pbWaitForIdle(ok)
  \/ pbLoopTest
  \/ \E o \in AutomateOutcomes : pbAttempt(o)
  \/ \E ok \in BOOLEAN : pbRetryWait(ok)
  \/ \E ok \in BOOLEAN : pbScreenshot(ok)
  \/ pbCatch
  \/ \E ok \in BOOLEAN : pbFinally(ok)

\* ====================================== POST /api/run-batch (automation.js)
\* sb_prompts: batch.prompts.  sb_valid: the payload passes the first check.
\* sb_i: the loop index i (0-based, as in the code).
\* sb_started: the list positions (1-based) whose automateForm call began.
\* sb_results: the results array; an entry is [pos, order, status, result],
\* result being the success field of promptResult ("none" on a failed entry).
\* sb_waited: the positions after which the loop waited automationDelay.
\* sb_response: [code, status] sent to the client.

NoResponse == [code |-> 0, status |-> "none"]

sbOff ==
  /\ sb_pc = "off" /\ sb_valid = FALSE /\ sb_prompts = <<>>
  /\ sb_maxRetries = 0 /\ sb_delay = 0 /\ sb_i = 0 /\ sb_started = <<>>
  /\ sb_results = <<>> /\ sb_successCount = 0 /\ sb_failureCount = 0
  /\ sb_waited = <<>> /\ sb_broke = FALSE /\ sb_browser = "none"
  /\ sb_response = NoResponse

sbInit ==
  /\ sb_pc = "validate"
  /\ sb_valid \in BOOLEAN
  /\ sb_prompts \in PromptLists
  /\ sb_valid = FALSE => sb_prompts = <<>>
  /\ sb_maxRetries \in 0..MaxRetries
  /\ sb_delay \in DelaySettings
  /\ sb_i = 0 /\ sb_started = <<>> /\ sb_results = <<>>
  /\ sb_successCount = 0 /\ sb_failureCount = 0 /\ sb_waited = <<>>
  /\ sb_broke = FALSE /\ sb_browser = "none" /\ sb_response = NoResponse

sbKeepInputs ==
  /\ UNCHANGED <<sb_valid, sb_prompts, sb_maxRetries, sb_delay>>
  /\ UNCHANGED sbRest

\* the two payload checks: 400 INVALID_BATCH_DATA, 400 EMPTY_BATCH
sbValidate ==
  /\ sb_pc = "validate"
  /\ IF ~sb_valid
       THEN sb_pc' = "done" /\ sb_response' = [code |-> 400, status |-> "INVALID_BATCH_DATA"]
       ELSE IF Len(sb_prompts) = 0
         THEN sb_pc' = "done" /\ sb_response' = [code |-> 400, status |-> "EMPTY_BATCH"]
         ELSE sb_pc' = "launch" /\ sb_response' = sb_response
  /\ sbKeepInputs
  /\ UNCHANGED <<sb_i, sb_started, sb_results, sb_successCount, sb_failureCount,
                 sb_waited, sb_broke, sb_browser>>

\* browser = await puppeteer.launch(...)
sbLaunch(ok) ==
  /\ sb_pc = "launch"
  /\ IF ok THEN sb_browser' = "open" /\ sb_pc' = "page"
           ELSE sb_browser' = sb_browser /\ sb_pc' = "error"
  /\ sbKeepInputs
  /\ UNCHANGED <<sb_i, sb_started, sb_results, sb_successCount, sb_failureCount,
                 sb_waited, sb_broke, sb_response>>

\* browser.newPage(), setUserAgent, setViewport
sbNewPage(ok) ==
  /\ sb_pc = "page"
  /\ sb_pc' = IF ok THEN "goto" ELSE "error"
  /\ sbKeepInputs
  /\ UNCHANGED <<sb_i, sb_started, sb_results, sb_successCount, sb_failureCount,
                 sb_waited, sb_broke, sb_browser, sb_response>>

\* await page.goto(batch.targetUrl, ...)
sbGoto(ok) ==
  /\ sb_pc = "goto"
  /\ sb_pc' = IF ok THEN "loop" ELSE "error"
  /\ sbKeepInputs
  /\ UNCHANGED <<sb_i, sb_started, sb_results, sb_successCount, sb_failureCount,
                 sb_waited, sb_broke, sb_browser, sb_response>>

\* for (let i = 0; i < batch.prompts.length; i++): the call of automateForm
\* for prompts[i] begins
sbLoopTest ==
  /\ sb_pc = "loop"
  /\ IF sb_i < Len(sb_prompts)
       THEN sb_pc' = "call" /\ sb_started' = Append(sb_started, sb_i + 1)
       ELSE sb_pc' = "respond" /\ sb_started' = sb_started
  /\ sbKeepInputs
  /\ UNCHANGED <<sb_i, sb_results, sb_successCount, sb_failureCount, sb_waited,
                 sb_broke, sb_browser, sb_response>>

\* results.push({ ..., status: 'completed', result: promptResult })
sbCompletedEntry(pos, order, o) ==
  [pos |-> pos, order |-> order, status |-> "completed", result |-> o]

\* results.push({ ..., status: 'failed', error: promptError.message })
sbFailedEntry(pos, order) ==
  [pos |-> pos, order |-> order, status |-> "failed", result |-> "none"]

\* i++
sbNextIndex(i) == i + 1

sbBreaksMutant(failureCount, maxRetries) == FALSE

\* if (failureCount >= mergedSettings.maxRetries) break;
sbBreaks(failureCount, maxRetries) == failureCount >= maxRetries

\* catch (promptError): a failed entry, failureCount++, and the break
sbCatch ==
  /\ sb_results' = Append(sb_results, sbFailedEntry(sb_i + 1, sb_prompts[sb_i + 1]))
  /\ sb_failureCount' = sb_failureCount + 1
  /\ IF sbBreaks(sb_failureCount', sb_maxRetries)
       THEN sb_broke' = TRUE /\ sb_pc' = "respond" /\ sb_i' = sb_i
       ELSE sb_broke' = sb_broke /\ sb_pc' = "loop" /\ sb_i' = sbNextIndex(sb_i)

\* if (mergedSettings.automationDelay > 0 && i < batch.prompts.length - 1)
sbDelays(delay, i, n) == delay > 0 /\ i < n - 1

\* const promptResult = await automateForm(...): whatever it returns is
\* pushed as 'completed' and counted in successCount; what it throws goes to
\* the catch
sbAutomate(o) ==
  /\ sb_pc = "call"
  /\ IF o = "throw"
       THEN sbCatch /\ UNCHANGED sb_successCount
       ELSE /\ sb_results' = Append(sb_results,
                               sbCompletedEntry(sb_i + 1, sb_prompts[sb_i + 1], o))
            /\ sb_successCount' = sb_successCount + 1
            /\ IF sbDelays(sb_delay, sb_i, Len(sb_prompts))
                 THEN sb_pc' = "delay" /\ sb_i' = sb_i
                 ELSE sb_pc' = "loop" /\ sb_i' = sbNextIndex(sb_i)
            /\ UNCHANGED <<sb_failureCount, sb_broke>>
  /\ sbKeepInputs
  /\ UNCHANGED <<sb_started, sb_waited, sb_browser, sb_response>>

\* await page.waitForTimeout(mergedSettings.automationDelay), inside the try
sbDelay(ok) ==
  /\ sb_pc = "delay"
  /\ sb_waited' = Append(sb_waited, sb_i + 1)
  /\ IF ok
       THEN /\ sb_pc' = "loop" /\ sb_i' = sbNextIndex(sb_i)
            /\ UNCHANGED <<sb_results, sb_failureCount, sb_broke>>
       ELSE sbCatch
  /\ sbKeepInputs
  /\ UNCHANGED <<sb_started, sb_successCount, sb_browser, sb_response>>

sbFinalStatusMutant(successCount, failureCount) == "completed"

\* const finalStatus = failureCount === 0 ? 'completed' :
\*                     successCount === 0 ? 'failed' : 'completed_with_errors'
sbFinalStatus(successCount, failureCount) ==
  IF failureCount = 0 THEN "completed"
  ELSE IF successCount = 0 THEN "failed" ELSE "completed_with_errors"

\* res.status(200).json({ status: finalStatus, results, summary })
sbRespond ==
  /\ sb_pc = "respond"
  /\ sb_response' = [code |-> 200,
                     status |-> sbFinalStatus(sb_successCount, sb_failureCount)]
  /\ sb_pc' = "finally"
  /\ sbKeepInputs
  /\ UNCHANGED <<sb_i, sb_started, sb_results, sb_successCount, sb_failureCount,
                 sb_waited, sb_broke, sb_browser>>

\* catch (automationError): 500 AUTOMATION_ERROR
sbAutomationError ==
  /\ sb_pc = "error"
  /\ sb_response' = [code |-> 500, status |-> "AUTOMATION_ERROR"]
  /\ sb_pc' = "finally"
  /\ sbKeepInputs
  /\ UNCHANGED <<sb_i, sb_started, sb_results, sb_successCount, sb_failureCount,
                 sb_waited, sb_broke, sb_browser>>

\* if (browser) { ... browser.close() ... }
sbCloses(browser) == browser = "open"

\* finally { if (browser) { try { await browser.close() } catch { log } } }
sbFinally(ok) ==
  /\ sb_pc = "finally"
  /\ sb_browser' = IF sbCloses(sb_browser)
                     THEN IF ok THEN "closed" ELSE "closeFailed"
                     ELSE sb_browser
  /\ sb_pc' = "done"
  /\ sbKeepInputs
  /\ UNCHANGED <<sb_i, sb_started, sb_results, sb_successCount, sb_failureCount,
                 sb_waited, sb_broke, sb_response>>

runBatchHandler ==
  \/ sbValidate
  \/ \E ok \in BOOLEAN : sbLaunch(ok)
  \/ \E ok \in BOOLEAN : sbNewPage(ok)
  \/ \E ok \in BOOLEAN : sbGoto(ok)
  \/ sbLoopTest
  \/ \E o \in AutomateOutcomes : sbAutomate(o)
  \/ \E ok \in BOOLEAN : sbDelay(ok)
  \/ sbRespond
  \/ sbAutomationError
  \/ \E ok \in BOOLEAN : sbFinally(ok)

\* ============================================ router /run-batch (routes.ts)
\* rt_results: the results array; an entry is [pos, success].
\* rt_response: [code, status]; on 200 the body also carries the counts,
\* which are functions of rt_results (rtSuccessCount, rtFailureCount).

rtOff ==
  /\ rt_pc = "off" /\ rt_valid = FALSE /\ rt_prompts = <<>> /\ rt_i = 0
  /\ rt_started = <<>> /\ rt_results = <<>> /\ rt_response = NoResponse

rtInit ==
  /\ rt_pc = "validate"
  /\ rt_valid \in BOOLEAN
  /\ rt_prompts \in PromptLists
  /\ rt_i = 0 /\ rt_started = <<>> /\ rt_results = <<>>
  /\ rt_response = NoResponse

rtKeepInputs ==
  /\ UNCHANGED <<rt_valid, rt_prompts>>
  /\ UNCHANGED rtRest

\* the checks of targetUrl and of the prompts array
rtValidate ==
  /\ rt_pc = "validate"
  /\ IF ~rt_valid \/ Len(rt_prompts) = 0
       THEN rt_pc' = "done" /\ rt_response' = [code |-> 400, status |-> "error"]
       ELSE rt_pc' = "loop" /\ rt_response' = rt_response
  /\ rtKeepInputs
  /\ UNCHANGED <<rt_i, rt_started, rt_results>>

\* for (const prompt of prompts): the call of launchBrowser begins
rtLoopTest ==
  /\ rt_pc = "loop"
  /\ IF rt_i < Len(rt_prompts)
       THEN rt_pc' = "call" /\ rt_started' = Append(rt_started, rt_i + 1)
       ELSE rt_pc' = "respond" /\ rt_started' = rt_started
  /\ rtKeepInputs
  /\ UNCHANGED <<rt_i, rt_results, rt_response>>

\* the loop has no break: after either branch it goes on to the next prompt
rtNextIndex(i, n, ok) == i + 1

\* try { result = await launchBrowser(...); push success:true }
\* catch { push success:false }
rtLaunchBrowser(ok) ==
  /\ rt_pc = "call"
  /\ rt_results' = Append(rt_results, [pos |-> rt_i + 1, success |-> ok])
  /\ rt_i' = rtNextIndex(rt_i, Len(rt_prompts), ok)
  /\ rt_pc' = "loop"
  /\ rtKeepInputs
  /\ UNCHANGED <<rt_started, rt_response>>

\* successCount: results.filter(r => r.success).length
rtSuccessCount(results) == Cardinality({k \in 1..Len(results) : results[k].success})

\* failureCount: results.filter(r => !r.success).length
rtFailureCount(results) == Cardinality({k \in 1..Len(results) : ~results[k].success})

\* res.json({ success: true, results, totalPrompts, successCount, failureCount })
rtRespond ==
  /\ rt_pc = "respond"
  /\ rt_response' = [code |-> 200, status |-> "success"]
  /\ rt_pc' = "done"
  /\ rtKeepInputs
  /\ UNCHANGED <<rt_i, rt_started, rt_results>>

routerRunBatch ==
  \/ rtValidate
  \/ rtLoopTest
  \/ \E ok \in BOOLEAN : rtLaunchBrowser(ok)
  \/ rtRespond

\* ============================== the enhanced batch server (browserService.ts)
\* eb_batchStatus: the Map batchStatus, a function from the ids it holds to
\* status records [status, completed, total, failed, processing, pending,
\* logs, stoppedAt]; logs is the length of recent_logs, stoppedAt whether the
\* record carries a stoppedAt field.
\* eb_batchResults: the Map batchResults, from ids to [completed, failed],
\* the numbers of results of either status.
\* eb_run[r]: one call of processEnhancedBatch: its batch id, the number n of
\* its prompts, and the position of automation.automatePrompts, which is not
\* part of the sources: i prompts are done, completed and failed count their
\* results; ended tells whether automatePrompts returned or threw.
\* stopSeen and startedAfterStop record the history the stop properties speak
\* of: a stop was accepted for the run's id while it ran, and a prompt was
\* started after that.
\* eb_stopResponse: [code, status] of the last answer of POST /api/stop-batch.

IdleRun == [pc |-> "idle", id |-> "a", n |-> 0, i |-> 0, completed |-> 0,
            failed |-> 0, browser |-> "none", ended |-> "no",
            stopSeen |-> FALSE, startedAfterStop |-> FALSE]

EmptyMap == [x \in {} |-> 0]

ebOff ==
  /\ eb_batchStatus = EmptyMap /\ eb_batchResults = EmptyMap
  /\ eb_run = [r \in Runs |-> [IdleRun EXCEPT !.pc = "off"]]
  /\ eb_stopResponse = NoResponse

ebInit ==
  /\ eb_batchStatus = EmptyMap /\ eb_batchResults = EmptyMap
  /\ eb_run = [r \in Runs |-> IdleRun]
  /\ eb_stopResponse = NoResponse

\* m.set(k, v)
MapSet(m, k, v) == [x \in (DOMAIN m) \cup {k} |-> IF x = k THEN v ELSE m[x]]

ebInitialStatusMutant(n) ==
  [status |-> "processing", completed |-> 0, total |-> n, failed |-> 0,
   processing |-> 1, pending |-> n, logs |-> 1, stoppedAt |-> FALSE]

\* batchStatus.set(batchId, { status: 'processing', progress: {...}, ... })
ebInitialStatus(n) ==
  [status |-> "processing", completed |-> 0, total |-> n, failed |-> 0,
   processing |-> 1, pending |-> n - 1, logs |-> 1, stoppedAt |-> FALSE]

\* updateBatchStatus(batchId, { status: 'processing', recent_logs: [2 entries] })
updateBatchStatus(m, id) ==
  IF id \in DOMAIN m
    THEN MapSet(m, id, [m[id] EXCEPT !.status = "processing", !.logs = 2])
    ELSE m

\* POST /api/run-batch with a valid payload: the status record, the
\* response, and processEnhancedBatch up to its first await.  Runs are
\* numbered in the order they start.
ebRunBatch(r, id, n) ==
  /\ eb_run[r].pc = "idle"
  /\ \A q \in Runs : q < r => eb_run[q].pc # "idle"
  /\ eb_batchStatus' = updateBatchStatus(MapSet(eb_batchStatus, id, ebInitialStatus(n)), id)
  /\ eb_run' = [eb_run EXCEPT ![r] = [IdleRun EXCEPT !.pc = "launch", !.id = id, !.n = n]]
  /\ UNCHANGED eb_batchResults
  /\ UNCHANGED eb_stopResponse
  /\ UNCHANGED ebRest

\* automatePrompts opens its browser session
ebLaunch(r, ok) ==
  /\ eb_run[r].pc = "launch"
  /\ eb_run' = [eb_run EXCEPT ![r].pc = IF ok THEN "loop" ELSE "threw",
                              ![r].ended = IF ok THEN @ ELSE "threw",
                              ![r].browser = IF ok THEN "open" ELSE "none"]
  /\ UNCHANGED <<eb_batchStatus, eb_batchResults>>
  /\ UNCHANGED eb_stopResponse
  /\ UNCHANGED ebRest

\* automatePrompts starts the interaction of its next prompt; it is given
\* the url, the prompts and the options, not the batch id or the status map
automatePromptsStart(r) ==
  /\ eb_run[r].pc = "loop"
  /\ eb_run[r].i < eb_run[r].n
  /\ eb_run' = [eb_run EXCEPT ![r].pc = "inflight",
                              ![r].startedAfterStop = @ \/ eb_run[r].stopSeen]
  /\ UNCHANGED <<eb_batchStatus, eb_batchResults>>
  /\ UNCHANGED eb_stopResponse
  /\ UNCHANGED ebRest

\* the interaction ends: a result of status completed or failed, or an
\* exception of the browser session, which escapes automatePrompts
automatePromptsEnd(r, o) ==
  /\ eb_run[r].pc = "inflight"
  /\ eb_run' = [eb_run EXCEPT
       ![r].pc = IF o = "crash" THEN "threw" ELSE "loop",
       ![r].ended = IF o = "crash" THEN "threw" ELSE @,
       ![r].i = IF o = "crash" THEN @ ELSE @ + 1,
       ![r].completed = IF o = "completed" THEN @ + 1 ELSE @,
       ![r].failed = IF o = "failed" THEN @ + 1 ELSE @]
  /\ UNCHANGED <<eb_batchStatus, eb_batchResults>>
  /\ UNCHANGED eb_stopResponse
  /\ UNCHANGED ebRest

\* batchStatus.set(batchId, { ...batchStatus.get(batchId), status:
\* 'completed', progress: { completed, total, failed, processing: 0,
\* pending: 0 }, recent_logs: [1 entry] })
ebFinalStatus(rec, completed, failed, n) ==
  [rec EXCEPT !.status = "completed", !.completed = completed, !.total = n,
              !.failed = failed, !.processing = 0, !.pending = 0, !.logs = 1]

\* automatePrompts returns its results: the final status and the results
\* are stored, and the finally block calls cleanup
ebCompleted(r) ==
  /\ eb_run[r].pc = "loop"
  /\ eb_run[r].i = eb_run[r].n
  /\ LET id == eb_run[r].id IN
       /\ eb_batchStatus' = MapSet(eb_batchStatus, id,
            ebFinalStatus(eb_batchStatus[id], eb_run[r].completed,
                          eb_run[r].failed, eb_run[r].n))
       /\ eb_batchResults' = MapSet(eb_batchResults, id,
            [completed |-> eb_run[r].completed, failed |-> eb_run[r].failed])
  /\ eb_run' = [eb_run EXCEPT ![r].pc = "cleanup", ![r].ended = "returned"]
  /\ UNCHANGED eb_stopResponse
  /\ UNCHANGED ebRest

\* catch (error): batchStatus.set(batchId, { ...batchStatus.get(batchId),
\* status: 'failed', error, failedAt, recent_logs: [1 entry] })
ebFailed(r) ==
  /\ eb_run[r].pc = "threw"
  /\ LET id == eb_run[r].id IN
       eb_batchStatus' = MapSet(eb_batchStatus, id,
            [eb_batchStatus[id] EXCEPT !.status = "failed", !.logs = 1])
  /\ eb_run' = [eb_run EXCEPT ![r].pc = "cleanup"]
  /\ UNCHANGED eb_batchResults
  /\ UNCHANGED eb_stopResponse
  /\ UNCHANGED ebRest

\* automation.cleanup() closes the session if one is open
cleanup(browser) == IF browser = "open" THEN "closed" ELSE browser

\* finally { await automation.cleanup(); }
ebFinally(r) ==
  /\ eb_run[r].pc = "cleanup"
  /\ eb_run' = [eb_run EXCEPT ![r].pc = "done", ![r].browser = cleanup(@)]
  /\ UNCHANGED <<eb_batchStatus, eb_batchResults>>
  /\ UNCHANGED eb_stopResponse
  /\ UNCHANGED ebRest

RunActive(run) == run.pc \in {"launch", "loop", "inflight", "threw"}

\* if (!status) 404 BATCH_NOT_FOUND; if (status.status === 'processing')
\* 200 success; else 400 BATCH_NOT_PROCESSING
stopBatchResponse(m, id) ==
  IF id \notin DOMAIN m THEN [code |-> 404, status |-> "BATCH_NOT_FOUND"]
  ELSE IF m[id].status = "processing" THEN [code |-> 200, status |-> "success"]
  ELSE [code |-> 400, status |-> "BATCH_NOT_PROCESSING"]

stoppedRecordMutant(rec) ==
  [rec EXCEPT !.status = "stopped", !.stoppedAt = TRUE, !.logs = @ + 1,
              !.processing = 0]

\* { ...status, status: 'stopped', stoppedAt, recent_logs: [...logs, 1 entry] }
stoppedRecord(rec) ==
  [rec EXCEPT !.status = "stopped", !.stoppedAt = TRUE, !.logs = @ + 1]

\* The stop handler's writes: batchStatus.set on the accepted branch only
stopBatchStatus(m, id) ==
  IF stopBatchResponse(m, id).code = 200
    THEN MapSet(m, id, stoppedRecord(m[id])) ELSE m

\* A stop that also ends the interaction in flight of the runs of the batch
ebStopBatchMutant(id) ==
  /\ eb_stopResponse' = stopBatchResponse(eb_batchStatus, id)
  /\ eb_batchStatus' = stopBatchStatus(eb_batchStatus, id)
  /\ eb_run' = [r \in Runs |->
       IF eb_stopResponse'.code = 200 /\ eb_run[r].id = id /\ RunActive(eb_run[r])
         THEN [eb_run[r] EXCEPT !.stopSeen = TRUE,
                                !.pc = IF @ = "inflight" THEN "loop" ELSE @]
         ELSE eb_run[r]]
  /\ UNCHANGED eb_batchResults
  /\ UNCHANGED ebRest

\* POST /api/stop-batch/:batchId: 404 for an id the map does not hold, 400
\* for a batch that is not processing, otherwise the record is replaced by
\* its stopped copy and the answer is 200.  The handler has no reference to
\* the runs; stopSeen only records that a stop was accepted.
ebStopBatch(id) ==
  /\ eb_stopResponse' = stopBatchResponse(eb_batchStatus, id)
  /\ eb_batchStatus' = stopBatchStatus(eb_batchStatus, id)
  /\ eb_run' = [r \in Runs |->
       IF eb_stopResponse'.code = 200 /\ eb_run[r].id = id /\ RunActive(eb_run[r])
         THEN [eb_run[r] EXCEPT !.stopSeen = TRUE] ELSE eb_run[r]]
  /\ UNCHANGED eb_batchResults
  /\ UNCHANGED ebRest

ebGetStatusMutant(m, id) == [code |-> 404, status |-> "none"]

\* GET /api/batch-status/:batchId: const status = batchStatus.get(batchId);
\* if (!status) return res.status(404)...; res.json(status).  It changes
\* nothing.
ebGetStatus(m, id) ==
  IF id \in DOMAIN m
    THEN [code |-> 200, status |-> m[id].status]
    ELSE [code |-> 404, status |-> "none"]

enhancedServer ==
  \/ \E r \in Runs, id \in BatchIds, n \in 0..MaxEnhPrompts : ebRunBatch(r, id, n)
  \/ \E r \in Runs, ok \in BOOLEAN : ebLaunch(r, ok)
  \/ \E r \in Runs : automatePromptsStart(r)
  \/ \E r \in Runs, o \in {"completed", "failed", "crash"} : automatePromptsEnd(r, o)
  \/ \E r \in Runs : ebCompleted(r)
  \/ \E r \in Runs : ebFailed(r)
  \/ \E r \in Runs : ebFinally(r)
  \/ \E id \in BatchIds : ebStopBatch(id)

\* =================================== GET /api/batch-status (automation.js)
\* gs_lookup: what the store answers: the batch row ("found"), no row
\* ("missing") or an exception ("throws").  gs_prompts: the status of each
\* prompt row of the batch.  gs_response: [code, total, completed, failed,
\* processing, pending].

NoProgress == [code |-> 0, total |-> 0, completed |-> 0, failed |-> 0,
               processing |-> 0, pending |-> 0]

gsOff ==
  /\ gs_pc = "off" /\ gs_lookup = "missing" /\ gs_prompts = <<>>
  /\ gs_response = NoProgress

gsInit ==
  /\ gs_pc = "request"
  /\ gs_lookup \in {"found", "missing", "throws"}
  /\ gs_prompts \in UNION {[1..n -> PromptStatuses] : n \in 0..MaxPrompts}
  /\ gs_lookup # "found" => gs_prompts = <<>>
  /\ gs_response = NoProgress

\* batch.prompts?.filter(p => p.status === st).length || 0
CountStatus(prompts, st) == Cardinality({k \in 1..Len(prompts) : prompts[k] = st})

\* pending: totalPrompts - completedPrompts - failedPrompts - processingPrompts
gsPending(total, completed, failed, processing) ==
  total - completed - failed - processing

\* the progress object of the response
gsProgress(prompts) ==
  LET total == Len(prompts)
      completed == CountStatus(prompts, "completed")
      failed == CountStatus(prompts, "failed")
      processing == CountStatus(prompts, "processing")
  IN [code |-> 200, total |-> total, completed |-> completed, failed |-> failed,
      processing |-> processing,
      pending |-> gsPending(total, completed, failed, processing)]

\* the handler: 404 when the batch is not found, 500 when the store throws
getBatchStatus ==
  /\ gs_pc = "request"
  /\ gs_response' = IF gs_lookup = "found" THEN gsProgress(gs_prompts)
                    ELSE [NoProgress EXCEPT !.code = IF gs_lookup = "missing"
                                                      THEN 404 ELSE 500]
  /\ gs_pc' = "done"
  /\ UNCHANGED <<gs_lookup, gs_prompts>>
  /\ UNCHANGED gsRest

\* ================================ element resolution (automateForm variants)
\* The resolution of the input element and of the submit button, as the three
\* automateForm variants compute it: "js" is src/automation.js, "ts" is
\* src/unnamed/part_000, "p9" is src/unnamed/part_009.  The resolution reads
\* the page and nothing else, so it is an operator of the page; the component
\* er_ applies it twice to one page.
\*
\* An element is known by what it answers to isVisible() and isEnabled():
\*   "ok" visible and enabled, "hidden" not visible, "disabled" visible and
\*   not enabled, "stale" not visible and isEnabled() throws, "broken"
\*   isVisible() throws.
\* A query (page.$$, page.$, page.waitForSelector) answers [threw, elems]:
\* it throws, or it returns the elements matching the selector, in order
\* (page.$ returns at most the first, waitForSelector the visible one).
\* A target is [found, sel, idx, state, pass]: whether an element is held,
\* the selector reported for it ("" when none is reported), the index of the
\* element in its query result, its state, and the pass that produced it.

Variants == {"js", "ts", "p9"}

\* settings.customInputSelectors / customSubmitSelectors: none, or one
CustomChoices == {<<>>, <<"#custom">>}

\* defaultInputSelectors / defaultSubmitSelectors: two of the listed defaults
DefaultSelectors == <<"default1", "default2">>

\* focusableSelectors (automation.js), fallbackSelectors (part_000): two of them
FallbackSelectors == <<"button", "input">>

Threw == [threw |-> TRUE, elems |-> <<>>]
Found(elems) == [threw |-> FALSE, elems |-> elems]

\* The answers of page.$$(selector)
QueryAllResults ==
  {Threw, Found(<<>>), Found(<<"ok">>), Found(<<"disabled">>),
   Found(<<"hidden", "ok">>), Found(<<"stale", "ok">>), Found(<<"broken", "ok">>)}

\* The answers of page.$(selector): null is the empty list
QueryResults ==
  {Threw, Found(<<>>), Found(<<"ok">>), Found(<<"hidden">>),
   Found(<<"disabled">>), Found(<<"stale">>), Found(<<"broken">>)}

\* The answers of page.$(selector) in the pass over the focusable elements
FallbackResults ==
  {Threw, Found(<<>>), Found(<<"ok">>), Found(<<"hidden">>), Found(<<"broken">>)}

\* The answers of page.waitForSelector(selector, { state: "visible" }): the
\* element, or a timeout error
WaitResults == {Threw, Found(<<"ok">>)}

\* element.isVisible()
isVisible(e) ==
  IF e \in {"ok", "disabled"} THEN "true"
  ELSE IF e \in {"hidden", "stale"} THEN "false" ELSE "throws"

\* element.isEnabled()
isEnabled(e) ==
  IF e \in {"ok", "hidden"} THEN "true"
  ELSE IF e = "disabled" THEN "false" ELSE "throws"

\* automation.js: const isVisible = await ...; const isEnabled = await ...;
\* if (isVisible && isEnabled).  part_000: if ((await element.isVisible()) &&
\* (await element.isEnabled())), which does not call isEnabled on an
\* element that is not visible.
\* The answer is "yes", "no" or "throws".
isEligible(variant, e) ==
  IF isVisible(e) = "throws" THEN "throws"
  ELSE IF variant = "ts" /\ isVisible(e) = "false" THEN "no"
  ELSE IF isEnabled(e) = "throws" THEN "throws"
  ELSE IF isVisible(e) = "true" /\ isEnabled(e) = "true" THEN "yes" ELSE "no"

NoTarget == [found |-> FALSE, sel |-> "", idx |-> 0, state |-> "none", pass |-> "none"]

\* for (const element of elements) { if (visible && enabled) { ...; break } }:
\* the index of the element chosen, 0 when the loop ends without one, -1
\* when a check throws (the catch of the selector's try block takes over)
RECURSIVE scanElements(_, _, _)
scanElements(variant, elems, k) ==
  IF k > Len(elems) THEN 0
  ELSE LET c == isEligible(variant, elems[k])
       IN IF c = "throws" THEN 0 - 1
          ELSE IF c = "yes" THEN k ELSE scanElements(variant, elems, k + 1)

\* for (const selector of inputSelectors) { try { elements = await
\* page.$$(selector); ...; if (targetElement) break; } catch { } }
RECURSIVE rolePass(_, _, _, _)
rolePass(variant, page, sels, j) ==
  IF j > Len(sels) THEN NoTarget
  ELSE LET q == page[sels[j]]
           k == IF q.threw THEN 0 ELSE scanElements(variant, q.elems, 1)
       IN IF k >= 1
            THEN [found |-> TRUE, sel |-> sels[j], idx |-> k,
                  state |-> q.elems[k], pass |-> "role"]
            ELSE rolePass(variant, page, sels, j + 1)

\* The element page.$ returned, held in the variable before it is checked;
\* no selector is reported for it yet.
Held(e, pass) == [found |-> TRUE, sel |-> "", idx |-> 1, state |-> e, pass |-> pass]

\* automation.js: for (const selector of focusableSelectors) { try {
\* targetElement = await page.$(selector); if (targetElement) { if (await
\* targetElement.isVisible()) { foundSelector = selector; break; } } } catch {} }
\* cur is the value of targetElement when selector j is reached.
RECURSIVE fallbackPassJs(_, _, _, _)
fallbackPassJs(page, sels, j, cur) ==
  IF j > Len(sels) THEN cur
  ELSE LET q == page[sels[j]]
       IN IF q.threw THEN fallbackPassJs(page, sels, j + 1, cur)
          ELSE IF q.elems = <<>> THEN fallbackPassJs(page, sels, j + 1, NoTarget)
          ELSE IF isVisible(q.elems[1]) = "true"
            THEN [Held(q.elems[1], "fallback") EXCEPT !.sel = sels[j]]
            ELSE fallbackPassJs(page, sels, j + 1, Held(q.elems[1], "fallback"))

\* part_000: const element = await page.$(selector); if (element && (await
\* element.isVisible())) { targetElement = element; foundSelector = selector;
\* break; }
RECURSIVE fallbackPassTs(_, _, _)
fallbackPassTs(page, sels, j) ==
  IF j > Len(sels) THEN NoTarget
  ELSE LET q == page[sels[j]]
       IN IF ~q.threw /\ q.elems # <<>> /\ isVisible(q.elems[1]) = "true"
            THEN [Held(q.elems[1], "fallback") EXCEPT !.sel = sels[j]]
            ELSE fallbackPassTs(page, sels, j + 1)

\* part_009: inputElement = await page.waitForSelector(selector, { state:
\* "visible" }); if (inputElement) break;  a timeout is caught
RECURSIVE waitPass(_, _, _)
waitPass(page, sels, j) ==
  IF j > Len(sels) THEN NoTarget
  ELSE LET q == page[sels[j]]
       IN IF ~q.threw /\ q.elems # <<>>
            THEN [Held(q.elems[1], "role") EXCEPT !.sel = sels[j]]
            ELSE waitPass(page, sels, j + 1)

\* automation.js: for (const selector of submitSelectors) { try {
\* submitButton = await page.$(selector); if (submitButton) { isVisible,
\* isEnabled; if (both) { foundSubmitSelector = selector; break; } } } catch {} }
\* cur is the value of submitButton when selector j is reached.
RECURSIVE submitPassJs(_, _, _, _)
submitPassJs(page, sels, j, cur) ==
  IF j > Len(sels) THEN cur
  ELSE LET q == page[sels[j]]
       IN IF q.threw THEN submitPassJs(page, sels, j + 1, cur)
          ELSE IF q.elems = <<>> THEN submitPassJs(page, sels, j + 1, NoTarget)
          ELSE IF isEligible("js", q.elems[1]) = "yes"
            THEN [Held(q.elems[1], "role") EXCEPT !.sel = sels[j]]
            ELSE submitPassJs(page, sels, j + 1, Held(q.elems[1], "role"))

\* part_000: const button = await page.$(selector); if (button && (await
\* button.isVisible()) && (await button.isEnabled())) { submitButton =
\* button; foundSubmitSelector = selector; break; }
RECURSIVE submitPassTs(_, _, _)
submitPassTs(page, sels, j) ==
  IF j > Len(sels) THEN NoTarget
  ELSE LET q == page[sels[j]]
       IN IF ~q.threw /\ q.elems # <<>> /\ isEligible("ts", q.elems[1]) = "yes"
            THEN [Held(q.elems[1], "role") EXCEPT !.sel = sels[j]]
            ELSE submitPassTs(page, sels, j + 1)

\* The selector list with the place of the custom selectors depending on the
\* call: first in the first call, last afterwards
candidateSelectorsMutant(variant, custom) ==
  IF er_pc = "first" THEN custom \o DefaultSelectors ELSE DefaultSelectors \o custom

\* automation.js, part_000: [...customInputSelectors, ...defaultInputSelectors]
\* and [...customSubmitSelectors, ...defaultSubmitSelectors];
\* part_009: [ ...the defaults, ...customInputSelectors ] and likewise for
\* the submit selectors
candidateSelectors(variant, custom) ==
  IF variant = "p9" THEN DefaultSelectors \o custom ELSE custom \o DefaultSelectors

\* The input element automateForm works on: the role-specific pass, then the
\* pass over the focusable elements if it found nothing
resolveInput(variant, custom, page, fallbackPage) ==
  LET sels == candidateSelectors(variant, custom)
      t == rolePass(variant, page, sels, 1)
  IN IF variant = "p9" THEN waitPass(page, sels, 1)
     ELSE IF t.found THEN t
     ELSE IF variant = "js" THEN fallbackPassJs(fallbackPage, FallbackSelectors, 1, NoTarget)
     ELSE fallbackPassTs(fallbackPage, FallbackSelectors, 1)

\* The submit button automateForm clicks, if any
resolveSubmit(variant, custom, page) ==
  LET sels == candidateSelectors(variant, custom)
  IN IF variant = "p9" THEN waitPass(page, sels, 1)
     ELSE IF variant = "js" THEN submitPassJs(page, sels, 1, NoTarget)
     ELSE submitPassTs(page, sels, 1)

\* er_variant, er_role, er_custom: the variant, the role resolved ("input"
\* or "submit") and the caller's custom selectors for that role.
\* er_page: the answer of the page to the query of each selector; er_fallback:
\* its answer to page.$ of each focusable selector.  A selector that is
\* never queried answers NotQueried.
\* er_results: the targets the calls made so far have resolved.

AllSelectors == {"#custom", "default1", "default2"}
FocusableSelectors == {"button", "input"}
NotQueried == Threw

erOff ==
  /\ er_pc = "off" /\ er_variant = "js" /\ er_role = "input" /\ er_custom = <<>>
  /\ er_page = [s \in AllSelectors |-> NotQueried]
  /\ er_fallback = [s \in FocusableSelectors |-> NotQueried]
  /\ er_results = <<>>

erInit ==
  /\ er_pc = "first"
  /\ er_variant \in Variants
  /\ er_role \in {"input", "submit"}
  /\ er_custom \in CustomChoices
  /\ er_page \in [AllSelectors ->
                    IF er_variant = "p9" THEN WaitResults
                    ELSE IF er_role = "input" THEN QueryAllResults ELSE QueryResults]
  /\ er_custom = <<>> => er_page["#custom"] = NotQueried
  /\ er_fallback \in [FocusableSelectors ->
                        IF er_variant # "p9" /\ er_role = "input"
                          THEN FallbackResults ELSE {NotQueried}]
  /\ er_results = <<>>

\* One call resolves the element of the role on the page; the next call
\* starts from fresh local variables (let targetElement = null, ...).
erResolve ==
  /\ er_pc \in {"first", "second"}
  /\ er_results' = Append(er_results,
       IF er_role = "input"
         THEN resolveInput(er_variant, er_custom, er_page, er_fallback)
         ELSE resolveSubmit(er_variant, er_custom, er_page))
  /\ er_pc' = IF er_pc = "first" THEN "second" ELSE "done"
  /\ UNCHANGED <<er_variant, er_role, er_custom, er_page, er_fallback>>
  /\ UNCHANGED erRest

elementResolution == erResolve

\* ============================================================ automateForm
\* The interaction of automateForm with the page, in the three variants of
\* Variants.  An error message is the sequence of its segments between
\* colons, which is what message.split(':') returns: 'A: b' is <<"A", " b">>
\* and the empty message is <<"">>.

\* The messages of the errors the page, the elements and the keyboard throw
LibMessages ==
  {<<"Timeout 30000ms exceeded">>, <<"elementHandle.click", " Target closed">>, <<"">>}

\* The outcome of one awaited call: it returned, or it threw an error
Returned == [ok |-> TRUE, msg |-> <<"">>]
Throws(msg) == [ok |-> FALSE, msg |-> msg]
StepOutcomes == {Returned} \cup {Throws(m) : m \in LibMessages}

\* new Error(`${prefix}: ${text}: ${inner.message}`)
wrapError(prefix, text, inner) == <<prefix, text>> \o inner

\* part_000 retryAction(fn, maxRetries, retryDelay) as seen by its caller:
\* the last outcome of fn, or, when maxRetries admits no attempt, the error
\* thrown after the loop; automation.js and part_009 call fn directly
retried(variant, maxRetries, o) ==
  IF variant = "ts" /\ maxRetries <= 0
    THEN Throws(<<"retryAction", " Max retries exceeded">>)
    ELSE o

\* Whether fn was invoked at all
invoked(variant, maxRetries) == ~(variant = "ts" /\ maxRetries <= 0)

\* error.message.split(':')[0] || 'UNKNOWN_ERROR'
errorCode(msg) == IF msg[1] = "" THEN "UNKNOWN_ERROR" ELSE msg[1]

NoResult == [success |-> FALSE, method |-> "none", error |-> <<"">>, code |-> "none"]

\* A failure object that drops the message of the error
failureMutant(variant, msg) ==
  [success |-> FALSE, method |-> "none", error |-> <<"">>, code |-> "UNKNOWN_ERROR"]

\* The object the catch block returns; part_009's has no code field
failure(variant, msg) ==
  [success |-> FALSE, method |-> "none", error |-> msg,
   code |-> IF variant = "p9" THEN "absent" ELSE errorCode(msg)]

\* The object returned after the submission
success(button) ==
  [success |-> TRUE, method |-> IF button.found THEN "button_click" ELSE "enter_key",
   error |-> <<"">>, code |-> "absent"]

\* af_target, af_button: the input element and the submit button resolved.
\* af_tried, af_done: the interactions attempted and those that returned.
\* af_raised, af_stepMsg: whether a step threw, and the message of its error.
\* af_result: the object automateForm returned.
Interactions ==
  {"waitForIdle", "findInput", "click", "forcedFocus", "focus", "clear", "type",
   "submitClick", "enter", "settle"}

afOff ==
  /\ af_pc = "off" /\ af_variant = "js" /\ af_maxRetries = 0
  /\ af_target = NoTarget /\ af_button = NoTarget
  /\ af_tried = {} /\ af_done = {}
  /\ af_raised = FALSE /\ af_stepMsg = <<"">> /\ af_result = NoResult

afInit ==
  /\ af_pc = "start"
  /\ af_variant \in Variants
  /\ af_maxRetries \in {0, MaxRetries}
  /\ af_variant # "ts" => af_maxRetries = MaxRetries
  /\ af_target = NoTarget /\ af_button = NoTarget
  /\ af_tried = {} /\ af_done = {}
  /\ af_raised = FALSE /\ af_stepMsg = <<"">> /\ af_result = NoResult

\* The throw of a step reaches the catch block of automateForm, which
\* returns the failure object.  step is the message of the error the step
\* threw, msg the message of the error that reaches the catch.
afCatch(step, msg) ==
  /\ af_pc' = "done"
  /\ af_raised' = TRUE
  /\ af_stepMsg' = step
  /\ af_result' = failure(af_variant, msg)

\* if (waitForIdle) await page.waitForLoadState('networkidle'): its error is
\* swallowed by .catch in automation.js and part_000, not in part_009
afWaitForIdle ==
  /\ af_pc = "start"
  /\ \E waitForIdle \in BOOLEAN, o \in StepOutcomes :
       /\ af_tried' = IF waitForIdle THEN af_tried \cup {"waitForIdle"} ELSE af_tried
       /\ IF waitForIdle /\ ~o.ok /\ af_variant = "p9"
            THEN /\ afCatch(o.msg, o.msg)
                 /\ UNCHANGED <<af_target, af_button, af_done>>
            ELSE /\ af_pc' = "findInput"
                 /\ af_done' = IF waitForIdle /\ o.ok
                                 THEN af_done \cup {"waitForIdle"} ELSE af_done
                 /\ UNCHANGED <<af_target, af_button, af_raised, af_stepMsg,
                                af_result>>
  /\ UNCHANGED <<af_variant, af_maxRetries>>
  /\ UNCHANGED afRest

\* The search of the input element, and the throw when there is none
afFindInput ==
  /\ af_pc = "findInput"
  /\ \E custom \in CustomChoices :
     \E page \in [AllSelectors ->
                    IF af_variant = "p9" THEN WaitResults ELSE QueryAllResults] :
     \E fallbackPage \in [FocusableSelectors -> FallbackResults] :
       LET t == resolveInput(af_variant, custom, page, fallbackPage)
           msg == IF af_variant = "p9"
                    THEN <<"No suitable input field found on the page">>
                    ELSE <<"NO_INPUT_ELEMENT_FOUND", " No suitable input element found">>
       IN IF t.found
            THEN /\ af_target' = t
                 /\ af_pc' = "click"
                 /\ af_done' = af_done \cup {"findInput"}
                 /\ UNCHANGED <<af_raised, af_stepMsg, af_result>>
            ELSE /\ afCatch(msg, msg)
                 /\ UNCHANGED <<af_target, af_done>>
  /\ af_tried' = af_tried \cup {"findInput"}
  /\ UNCHANGED <<af_variant, af_maxRetries, af_button>>
  /\ UNCHANGED afRest

\* automation.js: try { click(); focus() } catch { throw
\* ELEMENT_NOT_INTERACTABLE }; part_000: retryAction(try { click() } catch
\* { page.evaluate(el => el.focus()) }; focus()); part_009: await
\* inputElement.click().  c is the outcome of click(), f that of the focus
\* calls; in part_000 they are those of the last attempt of retryAction.
clickFocusOutcome(variant, c, f) ==
  IF variant = "p9" THEN c
  ELSE IF variant = "js" THEN (IF c.ok THEN f ELSE c)
  ELSE f

\* The calls the step makes
clickFocusCalls(variant, c) ==
  IF variant = "p9" THEN {"click"}
  ELSE IF variant = "js" THEN (IF c.ok THEN {"click", "focus"} ELSE {"click"})
  ELSE (IF c.ok THEN {"click", "focus"} ELSE {"click", "forcedFocus", "focus"})

afClickFocus ==
  /\ af_pc = "click"
  /\ \E c \in StepOutcomes, f \in StepOutcomes :
       LET r == retried(af_variant, af_maxRetries,
                        clickFocusOutcome(af_variant, c, f))
           calls == clickFocusCalls(af_variant, c)
       IN /\ af_tried' = IF invoked(af_variant, af_maxRetries)
                           THEN af_tried \cup calls ELSE af_tried
          /\ IF r.ok
               THEN /\ af_done' = af_done \cup (IF c.ok THEN calls ELSE calls \ {"click"})
                    /\ af_pc' = "clear"
                    /\ UNCHANGED <<af_raised, af_stepMsg, af_result>>
               ELSE /\ afCatch(r.msg,
                        IF af_variant = "js"
                          THEN wrapError("ELEMENT_NOT_INTERACTABLE",
                                 " Could not click or focus on target element", r.msg)
                          ELSE r.msg)
                    /\ af_done' = IF c.ok /\ invoked(af_variant, af_maxRetries)
                                    THEN af_done \cup {"click"} ELSE af_done
  /\ UNCHANGED <<af_variant, af_maxRetries, af_target, af_button>>
  /\ UNCHANGED afRest

\* The clearing of the field.  automation.js: selectText and Delete, else
\* fill(''), else a warning; part_000: retryAction(fill('')) with its error
\* swallowed by .catch; part_009: await inputElement.fill("") in the open
afClear ==
  /\ af_pc = "clear"
  /\ \E o \in StepOutcomes :
       /\ af_tried' = af_tried \cup {"clear"}
       /\ IF o.ok /\ invoked(af_variant, af_maxRetries)
            THEN /\ af_done' = af_done \cup {"clear"}
                 /\ af_pc' = "type"
                 /\ UNCHANGED <<af_raised, af_stepMsg, af_result>>
            ELSE IF af_variant = "p9"
              THEN /\ afCatch(o.msg, o.msg)
                   /\ UNCHANGED af_done
              ELSE /\ af_pc' = "type"
                   /\ UNCHANGED <<af_done, af_raised, af_stepMsg, af_result>>
  /\ UNCHANGED <<af_variant, af_maxRetries, af_target, af_button>>
  /\ UNCHANGED afRest

\* await targetElement.type(prompt) (part_000: in retryAction; part_009:
\* inputElement.fill(prompt))
afType ==
  /\ af_pc = "type"
  /\ \E o \in StepOutcomes :
       LET r == retried(af_variant, af_maxRetries, o)
       IN /\ af_tried' = IF invoked(af_variant, af_maxRetries)
                           THEN af_tried \cup {"type"} ELSE af_tried
          /\ IF r.ok
               THEN /\ af_done' = af_done \cup {"type"}
                    /\ af_pc' = "findSubmit"
                    /\ UNCHANGED <<af_raised, af_stepMsg, af_result>>
               ELSE /\ afCatch(r.msg, r.msg)
                    /\ UNCHANGED af_done
  /\ UNCHANGED <<af_variant, af_maxRetries, af_target, af_button>>
  /\ UNCHANGED afRest

\* The search of the submit button; finding none is not an error
afFindSubmit ==
  /\ af_pc = "findSubmit"
  /\ \E custom \in CustomChoices :
     \E page \in [AllSelectors ->
                    IF af_variant = "p9" THEN WaitResults ELSE QueryResults] :
       af_button' = resolveSubmit(af_variant, custom, page)
  /\ af_pc' = "submit"
  /\ UNCHANGED <<af_variant, af_maxRetries, af_target, af_tried, af_done,
                 af_raised, af_stepMsg, af_result>>
  /\ UNCHANGED afRest

submitStrategyMutant(button) == "enter"

\* if (submitButton) { click } else { press Enter }: the one submission
\* call made
submitStrategy(button) == IF button.found THEN "submitClick" ELSE "enter"

\* if (submitButton) click it, else press Enter.  automation.js wraps the
\* error of either (SUBMIT_BUTTON_CLICK_FAILED, ENTER_KEY_SUBMIT_FAILED);
\* part_000 calls them in retryAction, part_009 in the open
afSubmit ==
  /\ af_pc = "submit"
  /\ \E o \in StepOutcomes :
       LET r == retried(af_variant, af_maxRetries, o)
           act == submitStrategy(af_button)
       IN /\ af_tried' = IF invoked(af_variant, af_maxRetries)
                           THEN af_tried \cup {act} ELSE af_tried
          /\ IF r.ok
               THEN /\ af_done' = af_done \cup {act}
                    /\ af_pc' = "settle"
                    /\ UNCHANGED <<af_raised, af_stepMsg, af_result>>
               ELSE /\ afCatch(r.msg,
                        IF af_variant # "js" THEN r.msg
                        ELSE IF af_button.found
                          THEN wrapError("SUBMIT_BUTTON_CLICK_FAILED",
                                 " Could not click submit button", r.msg)
                          ELSE wrapError("ENTER_KEY_SUBMIT_FAILED",
                                 " Could not submit form via Enter key", r.msg))
                    /\ UNCHANGED af_done
  /\ UNCHANGED <<af_variant, af_maxRetries, af_target, af_button>>
  /\ UNCHANGED afRest

\* await page.waitForTimeout(1000) in the open (automation.js, part_000), or
\* waitForLoadState in a try block (part_009); then the success object
afSettle ==
  /\ af_pc = "settle"
  /\ \E o \in StepOutcomes :
       /\ af_tried' = af_tried \cup {"settle"}
       /\ IF o.ok \/ af_variant = "p9"
            THEN /\ af_done' = IF o.ok THEN af_done \cup {"settle"} ELSE af_done
                 /\ af_pc' = "done"
                 /\ af_result' = success(af_button)
                 /\ UNCHANGED <<af_raised, af_stepMsg>>
            ELSE /\ afCatch(o.msg, o.msg)
                 /\ UNCHANGED af_done
  /\ UNCHANGED <<af_variant, af_maxRetries, af_target, af_button>>
  /\ UNCHANGED afRest

automateForm ==
  \/ afWaitForIdle
  \/ afFindInput
  \/ afClickFocus
  \/ afClear
  \/ afType
  \/ afFindSubmit
  \/ afSubmit
  \/ afSettle

\* ================================================ GET /test (self-tests)
\* tt_tests: testResults.tests, the entries pushed so far, each [name,
\* status].  tt_summary: testResults.summary.  tt_response: the status code
\* sent (0: none yet).

\* The self-tests in the order the handler awaits them: by the name field of
\* the entry each returns
TestNames ==
  <<"Browser Initialization", "Basic Automation", "Enhanced Features", "Error Handling">>

\* The status values the return statements of the k-th self-test carry:
\* every one returns 'passed' from its try block and 'failed' from its catch
\* block; testEnhancedFeatures and testErrorHandling also return 'partial'
TestStatuses(k) ==
  IF TestNames[k] \in {"Enhanced Features", "Error Handling"}
    THEN {"passed", "partial", "failed"}
    ELSE {"passed", "failed"}

NoSummary == [total |-> 0, passed |-> 0, failed |-> 0]

ttOff ==
  tt_pc = "off" /\ tt_tests = <<>> /\ tt_summary = NoSummary /\ tt_response = 0

ttInit ==
  tt_pc = "running" /\ tt_tests = <<>> /\ tt_summary = NoSummary /\ tt_response = 0

\* testResults.tests.filter(t => t.status === st).length
filterStatus(tests, st) == Cardinality({k \in 1..Len(tests) : tests[k].status = st})

ttSummaryMutant(tests) ==
  [total |-> Len(tests), passed |-> Len(tests),
   failed |-> filterStatus(tests, "failed")]

\* summary.total = tests.length; summary.passed, summary.failed by filter
ttSummary(tests) ==
  [total |-> Len(tests), passed |-> filterStatus(tests, "passed"),
   failed |-> filterStatus(tests, "failed")]

\* const t = await test(); testResults.tests.push(t); after the fourth, the
\* summary is computed and res.json(testResults) sent
ttRunTest(st) ==
  /\ tt_pc = "running"
  /\ st \in TestStatuses(Len(tt_tests) + 1)
  /\ tt_tests' = Append(tt_tests, [name |-> TestNames[Len(tt_tests) + 1], status |-> st])
  /\ IF Len(tt_tests') = Len(TestNames)
       THEN /\ tt_summary' = ttSummary(tt_tests')
            /\ tt_response' = 200
            /\ tt_pc' = "done"
       ELSE UNCHANGED <<tt_pc, tt_summary, tt_response>>
  /\ UNCHANGED ttRest

selfTests == \E st \in {"passed", "partial", "failed"} : ttRunTest(st)

\* ================================== processBatch, one launch per attempt
\* (part_010, and its compiled form in part_025)
\* lp_retries: the variable retries.  lp_attempts: how many times the
\* sequence launch, newPage, goto, automateForm, screenshot was begun.
\* lp_launched: one record per browser chromium.launch returned, in launch
\* order: its state ("open", "closed", or "closeFailed" when close() threw)
\* and how many times close() was called on it.
\* lp_browser: the variable browser, the index in lp_launched of the browser
\* it holds (0: null).  lp_page: the variable page, the index of the browser
\* whose page it holds (0: null).  Neither is reset between attempts.
\* lp_pending: the value a return statement has set while the finally block
\* runs ("none" when the block was entered from the wait).  lp_result: the
\* outcome of the call: "success", "failure", or "rejected" when a close()
\* threw in the finally block.

lpOff ==
  /\ lp_pc = "off" /\ lp_maxRetries = 0 /\ lp_retries = 0 /\ lp_attempts = 0
  /\ lp_waits = 0 /\ lp_launched = <<>> /\ lp_browser = 0 /\ lp_page = 0
  /\ lp_pending = "none" /\ lp_result = "none"

lpInit ==
  /\ lp_pc = "loop"
  /\ lp_maxRetries \in 0..MaxRetries
  /\ lp_retries = 0 /\ lp_attempts = 0 /\ lp_waits = 0
  /\ lp_launched = <<>> /\ lp_browser = 0 /\ lp_page = 0
  /\ lp_pending = "none" /\ lp_result = "none"

\* while (retries <= (options.maxRetries || 0)); the same test guards the
\* wait in the catch block
lpLoopGuard(retries, maxRetries) == retries <= maxRetries

\* The loop test; after the loop, return { success: false, error: "Maximum
\* retries exceeded" } (part_010 only)
lpLoopTest ==
  /\ lp_pc = "loop"
  /\ IF lpLoopGuard(lp_retries, lp_maxRetries)
       THEN lp_pc' = "attempt" /\ lp_result' = lp_result
       ELSE lp_pc' = "done" /\ lp_result' = "failure"
  /\ UNCHANGED <<lp_maxRetries, lp_retries, lp_attempts, lp_waits, lp_launched,
                 lp_browser, lp_page, lp_pending>>
  /\ UNCHANGED lpRest

\* The outcomes of the try block: it returns, or chromium.launch throws, or
\* browser.newPage throws, or a later step (goto, automateForm, screenshot)
\* throws.
AttemptOutcomes == {"ok", "launchThrows", "newPageThrows", "stepThrows"}

\* browser = await chromium.launch(...): the variable is assigned only when
\* the launch returns
lpBrowserAfter(o, browser, launched) ==
  IF o = "launchThrows" THEN browser ELSE Len(launched) + 1

\* page = await browser.newPage(): the variable is assigned only when
\* newPage returns
lpPageAfter(o, page, launched) ==
  IF o \in {"launchThrows", "newPageThrows"} THEN page ELSE Len(launched) + 1

\* The try block: launch, newPage, goto, automateForm, screenshot, return
\* success.  The catch block: retries++, then the wait, or return
\* { success: false }.
lpAttempt(o) ==
  /\ lp_pc = "attempt"
  /\ lp_attempts' = lp_attempts + 1
  /\ lp_launched' = IF o = "launchThrows" THEN lp_launched
                    ELSE Append(lp_launched, [state |-> "open", closeCalls |-> 0])
  /\ lp_browser' = lpBrowserAfter(o, lp_browser, lp_launched)
  /\ lp_page' = lpPageAfter(o, lp_page, lp_launched)
  /\ IF o = "ok"
       THEN /\ lp_pending' = "success"
            /\ lp_pc' = "finally"
            /\ UNCHANGED lp_retries
       ELSE /\ lp_retries' = lp_retries + 1
            /\ IF lpLoopGuard(lp_retries', lp_maxRetries)
                 THEN lp_pc' = "wait" /\ lp_pending' = "none"
                 ELSE lp_pc' = "finally" /\ lp_pending' = "failure"
  /\ UNCHANGED <<lp_maxRetries, lp_waits, lp_result>>
  /\ UNCHANGED lpRest

\* await new Promise((resolve) => setTimeout(resolve, options.retryDelay || 1000))
lpWait ==
  /\ lp_pc = "wait"
  /\ lp_waits' = lp_waits + 1
  /\ lp_pc' = "finally"
  /\ UNCHANGED <<lp_maxRetries, lp_retries, lp_attempts, lp_launched, lp_browser,
                 lp_page, lp_pending, lp_result>>
  /\ UNCHANGED lpRest

\* if (page) await page.close() can throw only on a page that is still
\* open: Playwright's close() of a page whose browser is closed returns.
lpPageCloseCanThrow(page, launched) ==
  page # 0 /\ launched[page].state = "open"

\* if (browser) await browser.close(): the call is counted; an open browser
\* becomes closed, or closeFailed when the call throws; on a closed browser
\* the call returns and changes nothing.
lpBrowserClose(browser, launched, ok) ==
  IF browser = 0 THEN launched
  ELSE [launched EXCEPT
          ![browser] = [state |-> IF @.state # "open" THEN @.state
                                  ELSE IF ok THEN "closed" ELSE "closeFailed",
                        closeCalls |-> @.closeCalls + 1]]

\* finally { if (page) await page.close(); if (browser) await
\* browser.close(); }: page.close() throwing skips browser.close(), and an
\* error of either close() replaces the pending return
lpFinally(pageOk, browserOk) ==
  /\ lp_pc = "finally"
  /\ ~lpPageCloseCanThrow(lp_page, lp_launched) => pageOk
  /\ (~pageOk \/ lp_browser = 0 \/ lp_launched[lp_browser].state # "open")
       => browserOk
  /\ lp_launched' = IF pageOk
                      THEN lpBrowserClose(lp_browser, lp_launched, browserOk)
                      ELSE lp_launched
  /\ IF ~pageOk \/ ~browserOk
       THEN lp_pc' = "done" /\ lp_result' = "rejected"
       ELSE IF lp_pending # "none"
         THEN lp_pc' = "done" /\ lp_result' = lp_pending
         ELSE lp_pc' = "loop" /\ lp_result' = lp_result
  /\ lp_pending' = "none"
  /\ UNCHANGED <<lp_maxRetries, lp_retries, lp_attempts, lp_waits, lp_browser,
                 lp_page>>
  /\ UNCHANGED lpRest

launchPerAttempt ==
  \/ lpLoopTest
  \/ \E o \in AttemptOutcomes : lpAttempt(o)
  \/ lpWait
  \/ \E pageOk, browserOk \in BOOLEAN : lpFinally(pageOk, browserOk)

\* ============================================================ launchBrowser
\* The three launchBrowser functions: "bs" (browserService.ts), "p13"
\* (part_013) and "p12" (part_012).
\* lb_browser: "none", "open", "closed", or "closeFailed" when close() was
\* called and threw.  lb_pending: the outcome set when the finally block is
\* entered.  lb_out: "returned" (the result of a completed launch),
\* "failure" (part_012's { success: false }) or "rejected".

LaunchVariants == {"bs", "p13", "p12"}

lbOff ==
  /\ lb_pc = "off" /\ lb_variant = "bs" /\ lb_browser = "none"
  /\ lb_pending = "none" /\ lb_out = "none"

lbInit ==
  /\ lb_pc = "launch" /\ lb_variant \in LaunchVariants /\ lb_browser = "none"
  /\ lb_pending = "none" /\ lb_out = "none"

\* Whether the step lies inside the try block of the variant: in
\* browserService.ts and part_013 the try begins after context.newPage()
lbInTry(variant, step) ==
  variant = "p12" \/ step \notin {"launch", "newContext", "newPage"}

\* A step threw: outside the try the call rejects at once; inside it the
\* finally block runs first, after the catch block of part_012
lbThrow(step) ==
  IF lbInTry(lb_variant, step)
    THEN /\ lb_pc' = "finally"
         /\ lb_pending' = IF lb_variant = "p12" THEN "failure" ELSE "rejected"
         /\ lb_out' = lb_out
    ELSE /\ lb_pc' = "done"
         /\ lb_out' = "rejected"
         /\ lb_pending' = lb_pending

\* browser = await chromium.launch(...)
lbLaunch(ok) ==
  /\ lb_pc = "launch"
  /\ IF ok
       THEN /\ lb_browser' = "open"
            /\ lb_pc' = IF lb_variant = "p12" THEN "newPage" ELSE "newContext"
            /\ UNCHANGED <<lb_pending, lb_out>>
       ELSE lbThrow("launch") /\ lb_browser' = lb_browser
  /\ UNCHANGED lb_variant
  /\ UNCHANGED lbRest

\* const context = await browser.newContext()
lbNewContext(ok) ==
  /\ lb_pc = "newContext"
  /\ IF ok
       THEN lb_pc' = "newPage" /\ UNCHANGED <<lb_pending, lb_out>>
       ELSE lbThrow("newContext")
  /\ UNCHANGED <<lb_variant, lb_browser>>
  /\ UNCHANGED lbRest

\* const page = await context.newPage()  (part_012: browser.newPage())
lbNewPage(ok) ==
  /\ lb_pc = "newPage"
  /\ IF ok
       THEN lb_pc' = "goto" /\ UNCHANGED <<lb_pending, lb_out>>
       ELSE lbThrow("newPage")
  /\ UNCHANGED <<lb_variant, lb_browser>>
  /\ UNCHANGED lbRest

\* await page.goto(url, ...) and page.title()
lbGoto(ok) ==
  /\ lb_pc = "goto"
  /\ IF ok
       THEN lb_pc' = "screenshot" /\ UNCHANGED <<lb_pending, lb_out>>
       ELSE lbThrow("goto")
  /\ UNCHANGED <<lb_variant, lb_browser>>
  /\ UNCHANGED lbRest

\* await page.screenshot(...); part_012 returns after it
lbScreenshot(ok) ==
  /\ lb_pc = "screenshot"
  /\ IF ok
       THEN IF lb_variant = "p12"
              THEN lb_pc' = "finally" /\ lb_pending' = "returned" /\ lb_out' = lb_out
              ELSE lb_pc' = "writeFile" /\ UNCHANGED <<lb_pending, lb_out>>
       ELSE lbThrow("screenshot")
  /\ UNCHANGED <<lb_variant, lb_browser>>
  /\ UNCHANGED lbRest

\* fs.mkdirSync / fs.writeFileSync(filepath, screenshotBuffer); return
lbWriteFile(ok) ==
  /\ lb_pc = "writeFile"
  /\ IF ok
       THEN lb_pc' = "finally" /\ lb_pending' = "returned" /\ lb_out' = lb_out
       ELSE lbThrow("writeFile")
  /\ UNCHANGED <<lb_variant, lb_browser>>
  /\ UNCHANGED lbRest

\* finally { await browser.close(); }: its error replaces the pending
\* outcome.  part_012: if (browser) await browser.close().catch(...)
lbFinally(ok) ==
  /\ lb_pc = "finally"
  /\ lb_browser = "none" => ok
  /\ lb_browser' = IF lb_browser = "none" THEN "none"
                   ELSE IF ok THEN "closed" ELSE "closeFailed"
  /\ lb_out' = IF ok \/ lb_variant = "p12" THEN lb_pending ELSE "rejected"
  /\ lb_pc' = "done"
  /\ lb_pending' = "none"
  /\ UNCHANGED lb_variant
  /\ UNCHANGED lbRest

launchBrowser ==
  \/ \E ok \in BOOLEAN : lbLaunch(ok)
  \/ \E ok \in BOOLEAN : lbNewContext(ok)
  \/ \E ok \in BOOLEAN : lbNewPage(ok)
  \/ \E ok \in BOOLEAN : lbGoto(ok)
  \/ \E ok \in BOOLEAN : lbScreenshot(ok)
  \/ \E ok \in BOOLEAN : lbWriteFile(ok)
  \/ \E ok \in BOOLEAN : lbFinally(ok)

\* ================================ POST /api/run-batch and the store
\* The start of a batch run in server.js ("server": the batch is sent in
\* the request and recorded in the store) and in the Supabase variant of
\* automation.js ("supa": the batch is read from the store and its status
\* updated).  A store call answers "ok", answers with an error object
\* ("error") or throws ("throws").
\* rb_recordFailed: a call that records the batch or its prompts failed.
\* rb_started: runBatchAutomation was called.  rb_response: the status code
\* sent (0: none yet).

StoreOutcomes == {"ok", "error", "throws"}

rbOff ==
  /\ rb_pc = "off" /\ rb_variant = "server" /\ rb_recordFailed = FALSE
  /\ rb_started = FALSE /\ rb_response = 0

rbInit ==
  /\ rb_variant \in {"server", "supa"}
  /\ rb_pc = IF rb_variant = "server" THEN "upsertBatch" ELSE "fetchBatch"
  /\ rb_recordFailed = FALSE /\ rb_started = FALSE /\ rb_response = 0

\* runBatchAutomation({...}).then(...).catch(...) without await, then
\* res.status(200).json({ ..., status: 'processing' })
rbStartRun ==
  /\ rb_started' = TRUE
  /\ rb_response' = 200
  /\ rb_pc' = "done"

\* The handler answers without starting the run
rbAnswer(code) ==
  /\ rb_response' = code
  /\ rb_pc' = "done"
  /\ UNCHANGED rb_started

\* server.js: await supabase.from('batches').upsert({...}); an error
\* object is a warning, a throw goes to catch (dbError), which skips the
\* prompt records
rbUpsertBatch(o) ==
  /\ rb_pc = "upsertBatch"
  /\ rb_recordFailed' = (o # "ok")
  /\ IF o = "throws"
       THEN rbStartRun
       ELSE rb_pc' = "upsertPrompts" /\ UNCHANGED <<rb_started, rb_response>>
  /\ UNCHANGED rb_variant
  /\ UNCHANGED rbRest

\* server.js: await supabase.from('prompts').upsert(promptInserts): an
\* error object or a throw is a warning; then the run is started
rbUpsertPrompts(o) ==
  /\ rb_pc = "upsertPrompts"
  /\ rb_recordFailed' = (rb_recordFailed \/ o # "ok")
  /\ rbStartRun
  /\ UNCHANGED rb_variant
  /\ UNCHANGED rbRest

\* automation.js: the batch is fetched with its prompts; if (batchError ||
\* !batch) 404; a throw goes to the catch of the handler (500)
rbFetchBatch(o) ==
  /\ rb_pc = "fetchBatch"
  /\ IF o = "ok"
       THEN rb_pc' = "updateStatus" /\ UNCHANGED <<rb_started, rb_response>>
       ELSE rbAnswer(IF o = "error" THEN 404 ELSE 500)
  /\ UNCHANGED <<rb_variant, rb_recordFailed>>
  /\ UNCHANGED rbRest

\* automation.js: await supabase.from('batches').update({ status:
\* 'processing', ... }); if (updateError) return res.status(500); a throw
\* goes to the catch of the handler (500)
rbUpdateStatus(o) ==
  /\ rb_pc = "updateStatus"
  /\ rb_recordFailed' = (o # "ok")
  /\ IF o = "ok" THEN rbStartRun ELSE rbAnswer(500)
  /\ UNCHANGED rb_variant
  /\ UNCHANGED rbRest

runBatchStore ==
  \/ \E o \in StoreOutcomes : rbUpsertBatch(o)
  \/ \E o \in StoreOutcomes : rbUpsertPrompts(o)
  \/ \E o \in StoreOutcomes : rbFetchBatch(o)
  \/ \E o \in StoreOutcomes : rbUpdateStatus(o)

\* ====================== the settings of /api/automation and /api/run-batch
\* (part_005)
\* st_handler: which of the two handlers runs.  st_body: the request body is
\* "invalid" (a required field is missing), has "nullSettings" (settings:
\* null, which the default = {} does not replace), or is "ok".
\* st_settings: the settings object the caller sent; a field is [has, v]:
\* whether the key is present, and its number (0 when absent).
\* st_effective: the settings object passed to runAutomation.
\* st_response: [code, status] sent to the client.

SettingsHandlers == {"automation", "run-batch"}

Absent == [has |-> FALSE, v |-> 0]
Sent(n) == [has |-> TRUE, v |-> n]

\* The values a caller sends for each field, the key left out included
MaxRetriesSent == {Absent} \cup {Sent(n) : n \in {0 - 1, 0, 1, 5}}
AutomationDelaySent == {Absent} \cup {Sent(n) : n \in {0, 500, 1000, 4000}}
ElementTimeoutSent == {Absent} \cup {Sent(n) : n \in {0, 1000, 5000, 20000}}

NoSettings == [maxRetries |-> 0, automationDelay |-> 0, elementTimeout |-> 0]

stOff ==
  /\ st_pc = "off" /\ st_handler = "automation" /\ st_body = "invalid"
  /\ st_settings = [maxRetries |-> Absent, automationDelay |-> Absent,
                    elementTimeout |-> Absent]
  /\ st_effective = NoSettings /\ st_response = NoResponse

stInit ==
  /\ st_pc = "start"
  /\ st_handler \in SettingsHandlers
  /\ st_body \in {"invalid", "nullSettings", "ok"}
  /\ st_settings \in [maxRetries : MaxRetriesSent,
                      automationDelay : AutomationDelaySent,
                      elementTimeout : ElementTimeoutSent]
  /\ st_body # "ok" => st_settings = [maxRetries |-> Absent,
                                      automationDelay |-> Absent,
                                      elementTimeout |-> Absent]
  /\ st_effective = NoSettings /\ st_response = NoResponse

\* settings.key || d: the default replaces a missing key and a zero
orDefault(field, d) == IF field.has /\ field.v # 0 THEN field.v ELSE d

\* Math.max(a, b)
mathMax(a, b) == IF a >= b THEN a ELSE b

\* Math.max(settings.key || d, floor)
floored(field, d, floor) == mathMax(orDefault(field, d), floor)

\* { key: computed, ...settings }: the spread comes last, so a key the
\* caller sent replaces the computed value
spread(field, computed) == IF field.has THEN field.v ELSE computed

\* const automationSettings = { ..., maxRetries: Math.max(settings.maxRetries
\* || 3, 1), automationDelay: Math.max(settings.automationDelay || 2000,
\* 1000), elementTimeout: Math.max(settings.elementTimeout || 10000, 5000),
\* ..., ...settings }
automationSettings(settings) ==
  [maxRetries |-> spread(settings.maxRetries, floored(settings.maxRetries, 3, 1)),
   automationDelay |-> spread(settings.automationDelay,
                              floored(settings.automationDelay, 2000, 1000)),
   elementTimeout |-> spread(settings.elementTimeout,
                             floored(settings.elementTimeout, 10000, 5000))]

\* const batchSettings = { ..., maxRetries: Math.max(settings.maxRetries ||
\* 3, 1), automationDelay: Math.max(settings.automationDelay || 3000, 1000),
\* elementTimeout: Math.max(settings.elementTimeout || 15000, 5000), ...,
\* ...settings }
batchSettings(settings) ==
  [maxRetries |-> spread(settings.maxRetries, floored(settings.maxRetries, 3, 1)),
   automationDelay |-> spread(settings.automationDelay,
                              floored(settings.automationDelay, 3000, 1000)),
   elementTimeout |-> spread(settings.elementTimeout,
                             floored(settings.elementTimeout, 15000, 5000))]

\* The handler up to the call of runAutomation: 400 for a body without the
\* required fields; settings: null throws at settings.waitForIdle and the
\* catch answers 500; otherwise the settings object is built.
stBuildSettings ==
  /\ st_pc = "start"
  /\ IF st_body = "invalid"
       THEN /\ st_pc' = "done" /\ st_effective' = st_effective
            /\ st_response' = [code |-> 400, status |-> "error"]
       ELSE IF st_body = "nullSettings"
         THEN /\ st_pc' = "done" /\ st_effective' = st_effective
              /\ st_response' = [code |-> 500, status |-> "error"]
         ELSE /\ st_pc' = "run" /\ st_response' = st_response
              /\ st_effective' = IF st_handler = "automation"
                                   THEN automationSettings(st_settings)
                                   ELSE batchSettings(st_settings)
  /\ UNCHANGED <<st_handler, st_body, st_settings>>
  /\ UNCHANGED stRest

\* const result = await runAutomation({ ..., settings }); res.json({ success:
\* true, ... }); catch (error) 500
stRunAutomation(ok) ==
  /\ st_pc = "run"
  /\ st_pc' = "done"
  /\ st_response' = IF ok THEN [code |-> 200, status |-> "success"]
                          ELSE [code |-> 500, status |-> "error"]
  /\ UNCHANGED <<st_handler, st_body, st_settings, st_effective>>
  /\ UNCHANGED stRest

settingsHandlers ==
  \/ stBuildSettings
  \/ \E ok \in BOOLEAN : stRunAutomation(ok)

\* ================================================================== system

Init ==
  \/ raInit /\ pbOff /\ sbOff /\ rtOff /\ ebOff /\ gsOff /\ erOff /\ afOff /\ ttOff /\ lpOff /\ lbOff /\ rbOff /\ stOff
  \/ raOff /\ pbInit /\ sbOff /\ rtOff /\ ebOff /\ gsOff /\ erOff /\ afOff /\ ttOff /\ lpOff /\ lbOff /\ rbOff /\ stOff
  \/ raOff /\ pbOff /\ sbInit /\ rtOff /\ ebOff /\ gsOff /\ erOff /\ afOff /\ ttOff /\ lpOff /\ lbOff /\ rbOff /\ stOff
  \/ raOff /\ pbOff /\ sbOff /\ rtInit /\ ebOff /\ gsOff /\ erOff /\ afOff /\ ttOff /\ lpOff /\ lbOff /\ rbOff /\ stOff
  \/ raOff /\ pbOff /\ sbOff /\ rtOff /\ ebInit /\ gsOff /\ erOff /\ afOff /\ ttOff /\ lpOff /\ lbOff /\ rbOff /\ stOff
  \/ raOff /\ pbOff /\ sbOff /\ rtOff /\ ebOff /\ gsInit /\ erOff /\ afOff /\ ttOff /\ lpOff /\ lbOff /\ rbOff /\ stOff
  \/ raOff /\ pbOff /\ sbOff /\ rtOff /\ ebOff /\ gsOff /\ erInit /\ afOff /\ ttOff /\ lpOff /\ lbOff /\ rbOff /\ stOff
  \/ raOff /\ pbOff /\ sbOff /\ rtOff /\ ebOff /\ gsOff /\ erOff /\ afInit /\ ttOff /\ lpOff /\ lbOff /\ rbOff /\ stOff
  \/ raOff /\ pbOff /\ sbOff /\ rtOff /\ ebOff /\ gsOff /\ erOff /\ afOff /\ ttInit /\ lpOff /\ lbOff /\ rbOff /\ stOff
  \/ raOff /\ pbOff /\ sbOff /\ rtOff /\ ebOff /\ gsOff /\ erOff /\ afOff /\ ttOff /\ lpInit /\ lbOff /\ rbOff /\ stOff
  \/ raOff /\ pbOff /\ sbOff /\ rtOff /\ ebOff /\ gsOff /\ erOff /\ afOff /\ ttOff /\ lpOff /\ lbInit /\ rbOff /\ stOff
  \/ raOff /\ pbOff /\ sbOff /\ rtOff /\ ebOff /\ gsOff /\ erOff /\ afOff /\ ttOff /\ lpOff /\ lbOff /\ rbInit /\ stOff
  \/ raOff /\ pbOff /\ sbOff /\ rtOff /\ ebOff /\ gsOff /\ erOff /\ afOff /\ ttOff /\ lpOff /\ lbOff /\ rbOff /\ stInit

Next ==
  \/ retryAction
  \/ processBatch
  \/ runBatchHandler
  \/ routerRunBatch
  \/ enhancedServer
  \/ getBatchStatus
  \/ elementResolution
  \/ automateForm
  \/ selfTests
  \/ launchPerAttempt
  \/ launchBrowser
  \/ runBatchStore
  \/ settingsHandlers

Spec == Init /\ [][Next]_vars

\* ================================================================== claims

\* The number of entries of a results array that carry the status st.
CountEntries(s, st) == Cardinality({k \in 1..Len(s) : s[k].status = st})

\* A run is the only one its batch id ever had.
ebOnlyRun(r) == \A q \in Runs : q # r => (eb_run[q].pc = "idle" \/ eb_run[q].id # eb_run[r].id)

\* C1 (as stated; refuted): once a stop request for a processing batch has
\* been accepted, the run of that batch starts no further prompt, and when
\* the run has ended the batch's status is 'stopped'.
C1_StopHalts ==
  \A r \in Runs :
    (eb_run[r].stopSeen /\ ebOnlyRun(r)) =>
      /\ ~eb_run[r].startedAfterStop
      /\ eb_run[r].pc \in {"cleanup", "done"} =>
           eb_batchStatus[eb_run[r].id].status = "stopped"

\* C2 (as stated; refuted): the sequencers start the prompts in strictly
\* increasing prompt.order, for every prompt list, and a prompt starts only
\* when every prompt started before it has its result.
C2_IncreasingOrder ==
  /\ \A j, k \in 1..Len(sb_started) :
       j < k => sb_prompts[sb_started[j]] < sb_prompts[sb_started[k]]
  /\ \A j, k \in 1..Len(rt_started) :
       j < k => rt_prompts[rt_started[j]] < rt_prompts[rt_started[k]]
  /\ \A j \in 1..(Len(sb_started) - 1) :
       \E k \in 1..Len(sb_results) : sb_results[k].pos = sb_started[j]
  /\ \A j \in 1..(Len(rt_started) - 1) :
       \E k \in 1..Len(rt_results) : rt_results[k].pos = rt_started[j]

\* C3: in every status record of the enhanced server, from the one POST
\* /api/run-batch creates to the one the final update writes, and in every
\* progress object GET /api/batch-status answers, completed + failed +
\* processing + pending equals the total number of prompts.
C3_ProgressSum ==
  /\ \A id \in DOMAIN eb_batchStatus :
       LET p == eb_batchStatus[id] IN
         p.completed + p.failed + p.processing + p.pending = p.total
  /\ gs_response.code = 200 =>
       /\ gs_response.total = Len(gs_prompts)
       /\ gs_response.completed + gs_response.failed + gs_response.processing
            + gs_response.pending = gs_response.total

\* C3 witness: a final status record that counts both completed and failed
\* prompts.
C3_Witness ==
  \E id \in DOMAIN eb_batchStatus :
    /\ eb_batchStatus[id].status = "completed"
    /\ eb_batchStatus[id].completed >= 1
    /\ eb_batchStatus[id].failed >= 1

\* C4: with maxRetries = N >= 1, retryAction invokes the operation at most
\* N times and processBatch calls automateForm at most N times; every wait
\* between two attempts is the same retryDelay, so the waits never decrease.
C4_AtMostN ==
  /\ ra_maxRetries >= 1 => Len(ra_hist) <= ra_maxRetries
  /\ pb_maxRetries >= 1 => Len(pb_hist) <= pb_maxRetries
  /\ \A k \in 1..Len(ra_waits) : ra_waits[k] = ra_retryDelay
  /\ \A k \in 1..Len(pb_waits) : pb_waits[k] = pb_retryDelay
  /\ \A j, k \in 1..Len(ra_waits) : j < k => ra_waits[j] <= ra_waits[k]
  /\ \A j, k \in 1..Len(pb_waits) : j < k => pb_waits[j] <= pb_waits[k]
  /\ Len(ra_waits) <= Len(ra_hist) /\ Len(pb_waits) <= Len(pb_hist)

\* C4 witness: processBatch has used all of its N >= 2 attempts, waiting
\* between them.
C4_Witness ==
  /\ pb_pc = "done" /\ pb_maxRetries >= 2
  /\ Len(pb_hist) = pb_maxRetries /\ Len(pb_waits) = pb_maxRetries - 1

\* C5: retryAction returns the value of the first invocation that succeeds
\* and invokes nothing after it; when all N = maxRetries >= 1 invocations
\* fail it throws the error of the N-th invocation.
C5_FirstSuccessOrLastError ==
  /\ ra_pc = "returned" =>
       /\ Len(ra_hist) >= 1 /\ ra_hist[Len(ra_hist)]
       /\ \A k \in 1..(Len(ra_hist) - 1) : ~ra_hist[k]
       /\ ra_out = <<"value", Len(ra_hist)>>
  /\ (\E k \in 1..Len(ra_hist) : ra_hist[k]) =>
       ra_pc = "returned" /\ ra_hist[Len(ra_hist)]
  /\ (ra_pc = "thrown" /\ ra_maxRetries >= 1) =>
       /\ Len(ra_hist) = ra_maxRetries
       /\ \A k \in 1..Len(ra_hist) : ~ra_hist[k]
       /\ ra_out = <<"error", ra_maxRetries>>

\* C5 witness: all of N >= 2 invocations failed and retryAction threw.
C5_Witness == ra_pc = "thrown" /\ Len(ra_hist) >= 2

\* C5 witness of the other case: a success after a failure was returned.
C5_WitnessReturn == ra_pc = "returned" /\ Len(ra_hist) >= 2

C6_WitnessAbort ==
  sb_response.code = 200 /\ sb_broke /\ Len(sb_started) < Len(sb_prompts)

\* C7 (as stated; refuted): a prompt for which automateForm yields
\* success:false is recorded with status 'failed', never 'completed', and
\* is not counted in successCount.
C7_UnsuccessfulIsFailed ==
  /\ \A k \in 1..Len(sb_results) :
       sb_results[k].result = "fail" => sb_results[k].status = "failed"
  /\ sb_successCount =
       Cardinality({k \in 1..Len(sb_results) : sb_results[k].result = "ok"})

C8_WitnessEnhanced ==
  \E r \in Runs :
    /\ eb_run[r].ended = "returned" /\ ebOnlyRun(r)
    /\ eb_run[r].n >= 1 /\ eb_run[r].failed = eb_run[r].n
    /\ eb_batchStatus[eb_run[r].id].status = "completed"

\* C9 (as stated; refuted): processBatch never rejects: when it is done its
\* promise is resolved with a status 'completed' or 'failed', and the status
\* is 'failed' whenever an exception escaped the steps or no attempt
\* succeeded.
C9_NeverRejects ==
  pb_pc = "done" =>
    /\ pb_promise = "resolved"
    /\ pb_status \in {"completed", "failed"}
    /\ (pb_escaped \/ \A k \in 1..Len(pb_hist) : pb_hist[k] # "ok") =>
         pb_status = "failed"

\* C10: a run that launched a browser session and has ended does not leave
\* the session open: close() was called on it, on every exit path.
C10_BrowserClosed ==
  /\ pb_pc = "done" => pb_browser # "open"
  /\ sb_pc = "done" => sb_browser # "open"
  /\ \A r \in Runs : eb_run[r].pc = "done" => eb_run[r].browser # "open"

\* C10 witness: an exception escaped the steps of processBatch after the
\* launch, and the browser is closed.
C10_Witness ==
  pb_pc = "done" /\ pb_escaped /\ pb_browser = "closed"

\* C10 witness of the early exit: the prompt loop of the handler was left
\* by its break, and the browser is closed.
C10_WitnessBreak ==
  sb_pc = "done" /\ sb_broke /\ sb_browser = "closed"

\* An element that is visible and enabled
Eligible(e) == isVisible(e) = "true" /\ isEnabled(e) = "true"

\* The position of selector s in the list sels
SelPos(sels, s) == CHOOSE j \in 1..Len(sels) : sels[j] = s

\* C12 (as stated; refuted): the input element chosen by the role-specific
\* pass is visible and enabled, and no visible and enabled element comes
\* before it, in the order of the candidate selectors and then in the order
\* of the elements each query returned.
C12_FirstEligible ==
  (er_variant \in {"js", "ts"} /\ er_role = "input") =>
    \A n \in 1..Len(er_results) :
      LET t == er_results[n]
          sels == candidateSelectors(er_variant, er_custom)
      IN t.pass = "role" =>
           /\ Eligible(t.state)
           /\ \A j \in 1..Len(sels) :
                \A k \in 1..Len(er_page[sels[j]].elems) :
                  Eligible(er_page[sels[j]].elems[k]) =>
                    \/ j > SelPos(sels, t.sel)
                    \/ j = SelPos(sels, t.sel) /\ k >= t.idx

C14_CustomFirst ==
  er_custom # <<>> =>
    \A n \in 1..Len(er_results) :
      /\ candidateSelectors(er_variant, er_custom)[1] = er_custom[1]
      /\ (\E k \in 1..Len(er_page[er_custom[1]].elems) :
            Eligible(er_page[er_custom[1]].elems[k]))
           => er_results[n].sel = er_custom[1]

\* Sequence a is the end of sequence b
IsSuffix(a, b) ==
  Len(a) <= Len(b) /\ SubSeq(b, Len(b) - Len(a) + 1, Len(b)) = a

C11_WitnessSuccess ==
  af_pc = "done" /\ af_result.success /\ "enter" \in af_done /\ "type" \in af_done

\* C15 (as stated; refuted): in a successful result the method is
\* 'button_click' exactly when a visible and enabled submit button was found
\* and its click returned, and 'enter_key' exactly when no visible and
\* enabled button was found and the Enter key press returned.
C15_MethodExact ==
  (af_pc = "done" /\ af_result.success) =>
    LET eligibleFound == af_button.found /\ Eligible(af_button.state)
    IN /\ af_result.method = "button_click" <=>
            (eligibleFound /\ "submitClick" \in af_done)
       /\ af_result.method = "enter_key" <=>
            (~eligibleFound /\ "enter" \in af_done)

\* C16 (as stated; refuted): in every variant, when the clearing of the
\* field fails (every strategy throws) the call goes on to type the prompt.
C16_TypesAfterFailedClear ==
  ("clear" \in af_tried /\ "clear" \notin af_done) =>
    (af_pc = "type" \/ "type" \in af_tried)

\* C17 (as stated; refuted): the code of every failure object of
\* automation.js and part_000 is one of the five listed codes.
C17_CodeSet ==
  (af_pc = "done" /\ ~af_result.success /\ af_variant \in {"js", "ts"}) =>
    af_result.code \in {"NO_INPUT_ELEMENT_FOUND", "ELEMENT_NOT_INTERACTABLE",
                        "SUBMIT_BUTTON_CLICK_FAILED", "ENTER_KEY_SUBMIT_FAILED",
                        "UNKNOWN_ERROR"}

\* C18: POST /api/run-batch of the enhanced batch server answers before the
\* run has processed anything: at the step that sends the response the
\* status record of the batch id is 'processing' and the run has started no
\* prompt and has no result; and from then on a status query for the id of
\* a started run never answers 'not found'.
C18_RespondsFirst ==
  /\ [](\A r \in Runs :
          eb_run[r].pc \notin {"off", "idle"} =>
            ebGetStatus(eb_batchStatus, eb_run[r].id).code = 200)
  /\ [][\A r \in Runs, id \in BatchIds, n \in 0..MaxEnhPrompts :
          ebRunBatch(r, id, n) =>
            /\ ebGetStatus(eb_batchStatus', id).status = "processing"
            /\ eb_run'[r].pc = "launch"
            /\ eb_run'[r].i = 0 /\ eb_run'[r].completed = 0 /\ eb_run'[r].failed = 0
            /\ eb_run'[r].ended = "no"]_vars

\* C18 witness: the response of a run of two prompts has been sent, the
\* record is 'processing' and no prompt has been started.
C18_Witness ==
  /\ eb_run[1].pc = "launch" /\ eb_run[1].n = 2 /\ eb_run[1].i = 0
  /\ ebGetStatus(eb_batchStatus, eb_run[1].id) = [code |-> 200, status |-> "processing"]

\* C18 witness of the later query: the run has ended, and the query for
\* its id finds the record.
C18_WitnessAfter ==
  /\ eb_run[1].pc = "done" /\ eb_run[1].n = 2
  /\ ebGetStatus(eb_batchStatus, eb_run[1].id).code = 200

\* C19: GET /test runs the four self-tests in their fixed order and answers
\* with four entries, each of status 'passed', 'failed' or 'partial', with
\* summary.total = 4 and summary.passed + summary.failed <= 4.
C19_FourTests ==
  /\ \A k \in 1..Len(tt_tests) :
       /\ tt_tests[k].name = TestNames[k]
       /\ tt_tests[k].status \in {"passed", "failed", "partial"}
  /\ tt_pc = "done" =>
       /\ tt_response = 200
       /\ Len(tt_tests) = 4
       /\ tt_summary.total = 4
       /\ tt_summary.passed + tt_summary.failed <= 4
       /\ tt_summary.passed = filterStatus(tt_tests, "passed")

\* C19 witness: the answer was sent with a partial entry, so that passed and
\* failed together are fewer than the total.
C19_Witness ==
  /\ tt_pc = "done" /\ tt_response = 200 /\ Len(tt_tests) = 4
  /\ tt_tests[3].status = "partial" /\ tt_tests[1].status = "failed"
  /\ tt_summary.passed + tt_summary.failed < tt_summary.total

\* C20 (as stated; refuted): in the processBatch that launches a browser per
\* attempt, with options.maxRetries = N >= 1 the sequence launch, goto,
\* automateForm, screenshot is begun at most N times.
C20_AtMostN ==
  lp_maxRetries >= 1 => lp_attempts <= lp_maxRetries

\* The statuses the state machine of a batch ends in
TerminalStatuses == {"completed", "failed", "stopped"}

\* C21 (as stated; refuted): once the status of a batch is completed, failed
\* or stopped, no step of a batch run and no stop request changes it; only
\* a new POST /api/run-batch for the id starts the record afresh.
C21_TerminalIsFinal ==
  [][\A id \in BatchIds :
       (id \in DOMAIN eb_batchStatus
          /\ eb_batchStatus[id].status \in TerminalStatuses) =>
         \/ eb_batchStatus'[id].status = eb_batchStatus[id].status
         \/ \E r \in Runs, n \in 0..MaxEnhPrompts : ebRunBatch(r, id, n)]_vars

\* C22 (as stated; refuted): when a call of launchBrowser has ended, the
\* browser it launched is not left open: close() was called on it, whichever
\* step threw.
C22_BrowserClosed ==
  lb_pc = "done" => lb_browser # "open"

\* The fallback selector at position j matches a visible element
VisibleMatch(page, j) ==
  LET q == page[FallbackSelectors[j]]
  IN ~q.threw /\ q.elems # <<>> /\ isVisible(q.elems[1]) = "true"

\* C23 (as stated; refuted): when the role-specific pass found no element,
\* the element resolved is the match of the first fallback selector whose
\* match is visible; when no fallback selector has a visible match no
\* element is resolved, automateForm fails with NO_INPUT_ELEMENT_FOUND, and
\* nothing is clicked.
C23_FallbackVisible ==
  /\ (er_variant \in {"js", "ts"} /\ er_role = "input") =>
       \A n \in 1..Len(er_results) :
         LET t == er_results[n]
             hits == {j \in 1..Len(FallbackSelectors) : VisibleMatch(er_fallback, j)}
         IN t.pass # "role" =>
              IF hits = {}
                THEN ~t.found
                ELSE /\ t.found
                     /\ t.sel = FallbackSelectors[CHOOSE j \in hits : \A i \in hits : j <= i]
  /\ (af_variant \in {"js", "ts"} /\ af_target.pass = "fallback") =>
       isVisible(af_target.state) = "true"

\* C24 (as stated; refuted): a query of a candidate selector that throws
\* ends the resolution of the input element as a fault: the resolution
\* neither goes on to resolve an element nor reports that there is none.
C24_QueryFaultPropagates ==
  (er_variant \in {"js", "ts"} /\ er_role = "input") =>
    \A n \in 1..Len(er_results) :
      LET sels == candidateSelectors(er_variant, er_custom)
      IN er_page[sels[1]].threw => er_results[n].pass = "fault"

\* A submission was attempted and did not return
SubmitFailed ==
  /\ af_pc = "done" /\ af_raised
  /\ af_tried \cap {"submitClick", "enter"} # {}
  /\ af_done \cap {"submitClick", "enter"} = {}

ClickFocusFailed ==
  /\ af_pc = "done" /\ af_raised /\ "click" \in af_tried
  /\ "focus" \notin af_done /\ "clear" \notin af_tried

\* C26 (as stated; refuted): in automation.js and part_000, when the click
\* on the input element fails a forced programmatic focus is tried; and
\* when the click/focus step fails the call ends as a failure whose code is
\* ELEMENT_NOT_INTERACTABLE.
C26_ForcedFocusThenCode ==
  af_variant \in {"js", "ts"} =>
    /\ ("click" \in af_tried /\ "click" \notin af_done) => "forcedFocus" \in af_tried
    /\ ClickFocusFailed =>
         ~af_result.success /\ af_result.code = "ELEMENT_NOT_INTERACTABLE"

\* C27 (as stated; refuted): in every variant of automateForm, when the
\* wait for network idle times out the call goes on to the search of the
\* input element.
C27_IdleTimeoutNotFatal ==
  ("waitForIdle" \in af_tried /\ "waitForIdle" \notin af_done) =>
    (af_pc = "findInput" \/ "findInput" \in af_tried)

\* C28 (as stated; refuted): when a store call that records the batch or
\* its prompts at the start of POST /api/run-batch failed, the handler has
\* still started the batch run when it answers.
C28_StoreFailureNotFatal ==
  (rb_pc = "done" /\ rb_recordFailed) => (rb_started /\ rb_response = 200)

C30_RunsDisjoint ==
  \A r, q \in Runs :
    (r # q /\ RunActive(eb_run[r]) /\ RunActive(eb_run[q])) =>
      eb_run[r].id # eb_run[q].id

\* ---------------------------------------------------------------------- C31
\* The positions after which the prompt loop of POST /api/run-batch waited.
sbWaitedAfter == {sb_waited[j] : j \in 1..Len(sb_waited)}

\* C31: with a positive automationDelay, every prompt after the first starts
\* only after the loop waited behind the prompt before it, whether that
\* prompt completed or failed, and no wait follows the last prompt.
C31_DelayBetweenPrompts ==
  sb_delay > 0 =>
    /\ \A k \in 1..Len(sb_started) :
         sb_started[k] > 1 => (sb_started[k] - 1) \in sbWaitedAfter
    /\ \A p \in sbWaitedAfter : p < Len(sb_prompts)

\* ---------------------------------------------------------------------- C32
\* s is t with entries appended: what was recorded is still there, unchanged.
IsPrefix(s, t) == Len(s) <= Len(t) /\ \A k \in 1..Len(s) : t[k] = s[k]

\* Every prompt position has at most one entry, and the entries are in the
\* order the prompts were processed.
OneEntryInOrder(results) ==
  \A j, k \in 1..Len(results) : j < k => results[j].pos < results[k].pos

\* C32: in the results array of a batch run each prompt has at most one
\* entry, the entries are in processing order, and a step of the handler
\* only appends: the entries already recorded stay as they are.
C32_ResultsImmutable ==
  /\ [](OneEntryInOrder(sb_results) /\ OneEntryInOrder(rt_results))
  /\ [][IsPrefix(sb_results, sb_results') /\ IsPrefix(rt_results, rt_results')]_vars

\* ---------------------------------------------------------------------- C33
\* The automateForm calls of processBatch that did not return success:true.
pbUnsuccessful == {k \in 1..Len(pb_hist) : pb_hist[k] # "ok"}

\* C33: once processBatch has its status, the status is 'completed' exactly
\* when the last automateForm call it made returned success:true; a
\* successful call is always the last one; and a call that threw is counted
\* in attempt like a call that returned success:false, the calls never
\* exceeding maxRetries.
C33_StatusOfLastAttempt ==
  /\ pb_status # "none" =>
       (pb_status = "completed"
          <=> (Len(pb_hist) > 0 /\ pb_hist[Len(pb_hist)] = "ok"))
  /\ \A k \in 1..(Len(pb_hist) - 1) : pb_hist[k] # "ok"
  /\ pb_attempt = Cardinality(pbUnsuccessful)
  /\ Len(pb_hist) <= pb_maxRetries

\* processBatch returned 'completed' after a call that threw, a call that
\* returned success:false, and a third call that succeeded.
C33_Witness ==
  /\ pb_pc = "done" /\ pb_promise = "resolved" /\ pb_status = "completed"
  /\ pb_hist = <<"throw", "fail", "ok">>

\* processBatch returned 'failed' although an earlier call had returned a
\* result: the last call threw.
C33_WitnessThrowLast ==
  /\ pb_pc = "done" /\ pb_promise = "resolved" /\ pb_status = "failed"
  /\ pb_hist = <<"fail", "throw">> /\ pb_maxRetries = 2

C34_WitnessExhausted ==
  /\ ra_maxRetries >= 1 /\ ra_pc = "thrown"
  /\ Len(ra_hist) = ra_maxRetries /\ ra_out = <<"error", ra_maxRetries>>

\* ---------------------------------------------------------------------- C35
\* C35: in retryAction and in the retry loop of processBatch the k-th wait
\* is the one begun after the k-th attempt, that attempt failed and was not
\* the last allowed one, the wait is retryDelay long, and an attempt begins
\* only when every attempt before it has been followed by its wait; so no
\* wait follows a successful attempt or the last allowed attempt.
C35_WaitOnlyBetweenAttempts ==
  /\ \A k \in 1..Len(ra_waits) :
       /\ k <= Len(ra_hist) /\ ~ra_hist[k]
       /\ k < ra_maxRetries /\ ra_waits[k] = ra_retryDelay
  /\ Len(ra_waits) >= Len(ra_hist) - 1
  /\ ra_pc = "call" => Len(ra_waits) = Len(ra_hist)
  /\ \A k \in 1..Len(pb_waits) :
       /\ k <= Len(pb_hist) /\ pb_hist[k] # "ok"
       /\ k < pb_maxRetries /\ pb_waits[k] = pb_retryDelay
  /\ Len(pb_waits) >= Len(pb_hist) - 1
  /\ pb_pc = "call" => Len(pb_waits) = Len(pb_hist)

\* retryAction returned on its third attempt, after two waits.
C35_Witness ==
  /\ ra_pc = "returned" /\ ra_hist = <<FALSE, FALSE, TRUE>>
  /\ Len(ra_waits) = 2

\* processBatch used up three attempts: two waits, none after the last.
C35_WitnessProcessBatch ==
  /\ pb_pc = "done" /\ pb_maxRetries = 3 /\ Len(pb_hist) = 3
  /\ pb_hist[3] # "ok" /\ Len(pb_waits) = 2

\* ---------------------------------------------------------------------- C36
\* The browsers of the launch-per-attempt processBatch that are open.
lpOpen == {k \in 1..Len(lp_launched) : lp_launched[k].state = "open"}

\* C36 (as stated; refuted): in the launch-per-attempt processBatch at most
\* one browser is open at any time, and when the next attempt starts or the
\* call has ended every browser launched so far is no longer open and
\* close() was called on it exactly once, also when the launch or the page
\* creation of a later attempt failed.
C36_ClosedExactlyOnce ==
  /\ Cardinality(lpOpen) <= 1
  /\ lp_pc \in {"loop", "attempt", "done"} =>
       \A k \in 1..Len(lp_launched) :
         lp_launched[k].state # "open" /\ lp_launched[k].closeCalls = 1

\* ---------------------------------------------------------------------- C37
\* The progress counts of a status record
ProgressFields == {"completed", "total", "failed", "processing", "pending"}

\* C37: a step of POST /api/stop-batch answers 404 for an id the status map
\* does not hold and 400 for a batch whose status is not 'processing', and
\* then leaves the status map as it is; an accepted stop (200) sets status
\* to 'stopped', adds stoppedAt and one log entry, and leaves the progress
\* counts of the batch, the records of the other batches and the results
\* map as they are.
C37_StopFrame ==
  [][\A id \in BatchIds :
       ebStopBatch(id) =>
         /\ id \notin DOMAIN eb_batchStatus =>
              eb_stopResponse'.code = 404 /\ eb_batchStatus' = eb_batchStatus
         /\ (id \in DOMAIN eb_batchStatus
               /\ eb_batchStatus[id].status # "processing") =>
              eb_stopResponse'.code = 400 /\ eb_batchStatus' = eb_batchStatus
         /\ (id \in DOMAIN eb_batchStatus
               /\ eb_batchStatus[id].status = "processing") =>
              /\ eb_stopResponse'.code = 200
              /\ DOMAIN eb_batchStatus' = DOMAIN eb_batchStatus
              /\ \A x \in DOMAIN eb_batchStatus \ {id} :
                   eb_batchStatus'[x] = eb_batchStatus[x]
              /\ eb_batchStatus'[id].status = "stopped"
              /\ eb_batchStatus'[id].stoppedAt
              /\ eb_batchStatus'[id].logs = eb_batchStatus[id].logs + 1
              /\ \A f \in ProgressFields :
                   eb_batchStatus'[id][f] = eb_batchStatus[id][f]
         /\ eb_batchResults' = eb_batchResults]_vars

\* C37 witness: a stop was accepted while a prompt of the batch was in
\* flight, and a second stop for the same batch has since been answered 400;
\* the record is stopped and still counts one prompt as processing.
C37_Witness ==
  /\ eb_stopResponse.code = 400
  /\ \E r \in Runs :
       /\ eb_run[r].pc = "inflight" /\ eb_run[r].stopSeen
       /\ eb_batchStatus[eb_run[r].id].status = "stopped"
       /\ eb_batchStatus[eb_run[r].id].stoppedAt
       /\ eb_batchStatus[eb_run[r].id].processing = 1

\* A stop for an id no batch was ever submitted under was answered 404.
C37_WitnessUnknown ==
  eb_stopResponse.code = 404 /\ "b" \notin DOMAIN eb_batchStatus

\* ---------------------------------------------------------------------- C38
\* C38 (as stated; refuted): when a synchronous batch handler has answered
\* 200, the successful count plus the failed count it reports equals the
\* number of result entries, and that number does not exceed the number of
\* prompts; for router /run-batch the two counts add up to totalPrompts.
C38_CountsMatchResults ==
  /\ sb_response.code = 200 =>
       /\ sb_successCount + sb_failureCount = Len(sb_results)
       /\ Len(sb_results) <= Len(sb_prompts)
  /\ rt_response.code = 200 =>
       /\ rtSuccessCount(rt_results) + rtFailureCount(rt_results) = Len(rt_results)
       /\ Len(rt_results) = Len(rt_prompts)

\* ---------------------------------------------------------------------- C39
\* C39 (as stated; refuted): the settings object the /api/automation and
\* /api/run-batch handlers pass to runAutomation has maxRetries >= 1,
\* automationDelay >= 1000 and elementTimeout >= 5000, whatever settings the
\* caller sent.
C39_FloorsRespected ==
  st_pc \in {"run", "done"} /\ st_body = "ok" =>
    /\ st_effective.maxRetries >= 1
    /\ st_effective.automationDelay >= 1000
    /\ st_effective.elementTimeout >= 5000

====
